---- MODULE Spec2Model ----
(***************************************************************************)
(* DMA channel controller of the stm32 HAL (src/src/dma.rs).               *)
(*                                                                         *)
(* The register file of one DMA controller is the state.  One thread of    *)
(* control calls cfg_channel, stop, transfer_is_complete, enable_interrupt *)
(* and clear_interrupt; every register access of a call is one step, so    *)
(* the order of the accesses is visible.  The hardware runs beside the     *)
(* thread: it acknowledges a cleared enable bit some steps after the       *)
(* write, raises the half-transfer / transfer-complete flags of an armed   *)
(* channel, and on a transfer error clears the enable bit and raises the   *)
(* transfer-error flag.                                                    *)
(***************************************************************************)
EXTENDS Integers, Sequences, FiniteSets, TLC

VARIABLES
    family,             \* the build target (cargo feature), fixed per build
    scope,              \* the channels the driver under study calls into
    pool,               \* which argument tuples the driver passes to cfg_channel
    callsLeft,          \* API calls the driver may still make
    hwLeft,             \* status events the hardware may still raise
    pc,                 \* position of the thread inside the current call
    call,               \* the current call and its arguments
    tmp,                \* value read by the pending `modify` / `read`
    originally_enabled, \* local of enable_interrupt!
    ret,                \* return value of the last transfer_is_complete
    trace,              \* register writes, fences and poll exits of the call
    entry,              \* register file when the current call was entered
    prev,               \* the previous call: which operation, on which channel
    cpar,               \* DMA_CPARx
    cmar,               \* DMA_CMARx
    cndtr,              \* DMA_CNDTRx
    ccr,                \* DMA_CCRx, as a record of its fields
    isr,                \* DMA_ISR, per channel the flags teif, htif, tcif
    enClr,              \* hardware: a cleared EN is not yet acknowledged
    cselr,              \* DMA_CSELR (l4): one register, a field CnS per channel
    muxcr,              \* DMAMUX_CxCR: one register per channel
    saved,              \* the suspended thread of control: its position and locals
    buf,                \* the driver's access to the transfer buffer, as compiled
    rcc,                \* the handle's controller and the RCC bits of the controllers
    peripheral          \* the peripheral whose DmaPeriph functions the driver calls

vars == <<family, scope, pool, callsLeft, hwLeft, pc, call, tmp, originally_enabled, ret,
          trace, entry, prev,
          cpar, cmar, cndtr, ccr, isr, enClr, cselr, muxcr, saved, buf, rcc,
          peripheral>>

regvars == <<cpar, cmar, cndtr, ccr, isr, enClr>>

\* The request-selection registers.
selvars == <<cselr, muxcr>>

----------------------------------------------------------------------------
(* Bounds of the exploration.                                              *)

\* API calls per behaviour of the driver in Spec.
MaxCalls == 2

\* Status events (transfer error, half transfer, transfer complete) the
\* hardware raises per behaviour.
MaxHwEvents == 1

----------------------------------------------------------------------------
(* Build targets and channels.                                             *)

\* The build targets dma.rs distinguishes.
Families == {"f3", "g0", "l4", "l5", "g4", "wb"}

\* The build targets Spec explores: the block topology with channels 1..7
\* and the flat topology with channels 1..8.
Targets == {"f3", "g4"}

\* enum DmaChannel with its cfg attributes: C1..C5 always, C6 and C7 unless
\* g0, C8 on l5 and g4.
Channels(f) ==
    (1..5) \cup (IF f # "g0" THEN {6, 7} ELSE {})
           \cup (IF f \in {"l5", "g4"} THEN {8} ELSE {})

AllChannels == 1..8

\* The first channel, which has a match arm like those of C2..C7, and C8,
\* whose arms are written apart under their own cfg attribute.
EndChannels(f) == {1, 8} \cap Channels(f)

\* cfg_if!(any(feature = "f3", feature = "g0")): one register block per
\* channel (chN.par, chN.mar, chN.ndtr, chN.cr); otherwise flat numbered
\* registers (cparN, cmarN, cndtrN, ccrN).
BlockTopology(f) == f \in {"f3", "g0"}

RegKinds == {"par", "mar", "ndtr", "cr"}

FlatName(kind) ==
    CASE kind = "par"  -> "cpar"
      [] kind = "mar"  -> "cmar"
      [] kind = "ndtr" -> "cndtr"
      [] kind = "cr"   -> "ccr"

\* Variant: the block arm of the count write binds the memory-address
\* register.
BlockName_mar(kind) ==
    CASE kind = "par"  -> "ch.par"
      [] kind = "mar"  -> "ch.mar"
      [] kind = "ndtr" -> "ch.mar"
      [] kind = "cr"   -> "ch.cr"

BlockName(kind) ==
    CASE kind = "par"  -> "ch.par"
      [] kind = "mar"  -> "ch.mar"
      [] kind = "ndtr" -> "ch.ndtr"
      [] kind = "cr"   -> "ch.cr"

\* Variant: every arm binds the registers of channel 1.
Reg_first(f, ch, kind) ==
    [name |-> IF BlockTopology(f) THEN BlockName(kind) ELSE FlatName(kind),
     n    |-> 1]

\* The register a match arm of the source resolves to.
Reg(f, ch, kind) ==
    [name |-> IF BlockTopology(f) THEN BlockName(kind) ELSE FlatName(kind),
     n    |-> ch]

----------------------------------------------------------------------------
(* Enumerations and their `as u8` codes.                                   *)

Priorities == {"Low", "Medium", "High", "VeryHigh"}
PriorityBits(p) ==
    CASE p = "Low"      -> 0
      [] p = "Medium"   -> 1
      [] p = "High"     -> 2
      [] p = "VeryHigh" -> 3

Directions == {"ReadFromPeriph", "ReadFromMem"}
DirectionBits(d) == IF d = "ReadFromPeriph" THEN 0 ELSE 1

Circulars == {"Disabled", "Enabled"}
CircularBits(c) == IF c = "Disabled" THEN 0 ELSE 1

IncrModes == {"Disabled", "Enabled"}
IncrModeBits(m) == IF m = "Disabled" THEN 0 ELSE 1

DataSizes == {"S8", "S16", "S32"}
\* Variant: the size codes are off by one.
DataSizeBits_shifted(s) ==
    CASE s = "S8"  -> 1
      [] s = "S16" -> 2
      [] s = "S32" -> 3

DataSizeBits(s) ==
    CASE s = "S8"  -> 0
      [] s = "S16" -> 1
      [] s = "S32" -> 2

DmaInterrupts == {"TransferError", "HalfTransfer", "TransferComplete"}

\* enum DmaInput with its discriminants, the DMAMUX request identifiers.
DmaInputCodes ==
    [Adc1 |-> 5, Dac1Ch1 |-> 6, Dac1Ch2 |-> 7, Tim6Up |-> 8, Tim7Up |-> 9,
     Spi1Rx |-> 10, Spi1Tx |-> 11, Spi2Rx |-> 12, Spi2Tx |-> 13,
     Spi3Rx |-> 14, Spi3Tx |-> 15, I2c1Rx |-> 16, I2c1Tx |-> 17,
     I2c2Rx |-> 18, I2c2Tx |-> 19, I2c3Rx |-> 20, I2c3Tx |-> 21,
     I2c4Rx |-> 22, I2c4Tx |-> 23, Usart1Rx |-> 24, Usart1Tx |-> 25,
     Usart2Rx |-> 26, Usart2Tx |-> 27, Usart3Rx |-> 28, Usart3Tx |-> 29,
     Uart4Rx |-> 30, Uart4Tx |-> 31, Uart5Rx |-> 32, Uart5Tx |-> 33,
     Lpuart1Rx |-> 34, Lpuart1Tx |-> 35, Adc2 |-> 36, Adc3 |-> 37,
     Adc4 |-> 38, Adc5 |-> 39]

DmaInputs == DOMAIN DmaInputCodes

\* Variant: the identifiers are counted from 0.
DmaInputCode_index(input) == DmaInputCodes[input] - 5

\* `input as u8`
DmaInputCode(input) == DmaInputCodes[input]

\* Variant: the arms of I2c2Rx and I2c2Tx name the same channel.
Dma1Channels_i2c2 ==
    [Adc1 |-> 1, Spi1Rx |-> 2, Spi1Tx |-> 3, Spi2Rx |-> 4, Spi2Tx |-> 5,
     I2c1Rx |-> 7, I2c1Tx |-> 6, I2c2Rx |-> 4, I2c2Tx |-> 4, I2c3Rx |-> 3,
     Usart1Rx |-> 5, Usart1Tx |-> 4, Usart2Rx |-> 6, Usart2Tx |-> 7,
     Usart3Rx |-> 3, Usart3Tx |-> 2, Adc2 |-> 2]

\* DmaInput::dma1_channel: the arms that are written out; every other input
\* runs into unimplemented!().
Dma1Channels ==
    [Adc1 |-> 1, Spi1Rx |-> 2, Spi1Tx |-> 3, Spi2Rx |-> 4, Spi2Tx |-> 5,
     I2c1Rx |-> 7, I2c1Tx |-> 6, I2c2Rx |-> 5, I2c2Tx |-> 4, I2c3Rx |-> 3,
     Usart1Rx |-> 5, Usart1Tx |-> 4, Usart2Rx |-> 6, Usart2Tx |-> 7,
     Usart3Rx |-> 3, Usart3Tx |-> 2, Adc2 |-> 2]

\* Variant: the commented-out arm of Dac1Ch1 is compiled in.
Dma1ChannelSelects_dac ==
    [Adc1 |-> 0, Dac1Ch1 |-> 6, Spi1Rx |-> 1, Spi1Tx |-> 1, Spi2Rx |-> 1,
     Spi2Tx |-> 1, I2c1Rx |-> 3, I2c1Tx |-> 3, I2c2Rx |-> 3, I2c2Tx |-> 3,
     I2c3Rx |-> 3, Usart1Rx |-> 2, Usart1Tx |-> 2, Usart2Rx |-> 2,
     Usart2Tx |-> 2, Usart3Rx |-> 2, Usart3Tx |-> 2, Adc2 |-> 0]

\* DmaInput::dma1_channel_select: the arms that are written out; every other
\* input runs into unimplemented!().
Dma1ChannelSelects ==
    [Adc1 |-> 0, Spi1Rx |-> 1, Spi1Tx |-> 1, Spi2Rx |-> 1, Spi2Tx |-> 1,
     I2c1Rx |-> 3, I2c1Tx |-> 3, I2c2Rx |-> 3, I2c2Tx |-> 3, I2c3Rx |-> 3,
     Usart1Rx |-> 2, Usart1Tx |-> 2, Usart2Rx |-> 2, Usart2Tx |-> 2,
     Usart3Rx |-> 2, Usart3Tx |-> 2, Adc2 |-> 0]

\* The inputs the driver of SpecSel uses: one for each of two channels,
\* with different selector values, and one without an arm.
DriverInputs == {"Spi1Rx", "Usart3Rx", "Dac1Ch1"}

Inputs(p) == IF p = "all" THEN DmaInputs ELSE DriverInputs

\* mux is compiled for l5, g0, g4 and wb; channel_select for l4 only.
HasMux(f) == f \in {"l5", "g0", "g4", "wb"}
HasChannelSelect(f) == f = "l4"

\* trait DmaPeriph is compiled for f3 and l4; read_sel and write_sel for l4
\* only.
HasDmaPeriph(f) == f \in {"f3", "l4"}

\* The types with an `impl DmaPeriph`: USART3 and ADC2 on l4 parts only.
DmaPeriphs(f) ==
    {"I2C1", "I2C2", "SPI1", "SPI2", "SPI3", "USART1", "USART2", "ADC1"}
        \cup (IF f = "l4" THEN {"USART3", "ADC2"} ELSE {})

\* Variant: write_chan and write_sel of USART1 name Usart1Rx.
PeriphInputs_usart1 ==
    [I2C1   |-> [read |-> "I2c1Rx",   write |-> "I2c1Tx"],
     I2C2   |-> [read |-> "I2c2Rx",   write |-> "I2c2Tx"],
     SPI1   |-> [read |-> "Spi1Rx",   write |-> "Spi1Tx"],
     SPI2   |-> [read |-> "Spi2Rx",   write |-> "Spi2Tx"],
     SPI3   |-> [read |-> "Spi3Rx",   write |-> "Spi3Tx"],
     USART1 |-> [read |-> "Usart1Rx", write |-> "Usart1Rx"],
     USART2 |-> [read |-> "Usart2Rx", write |-> "Usart2Tx"],
     USART3 |-> [read |-> "Usart3Rx", write |-> "Usart3Tx"],
     ADC1   |-> [read |-> "Adc1",     write |-> "unimplemented"],
     ADC2   |-> [read |-> "Adc2",     write |-> "unimplemented"]]

\* Variant: write_chan and write_sel of ADC1 name Adc1 as the read ones do.
PeriphInputs_adc1 ==
    [I2C1   |-> [read |-> "I2c1Rx",   write |-> "I2c1Tx"],
     I2C2   |-> [read |-> "I2c2Rx",   write |-> "I2c2Tx"],
     SPI1   |-> [read |-> "Spi1Rx",   write |-> "Spi1Tx"],
     SPI2   |-> [read |-> "Spi2Rx",   write |-> "Spi2Tx"],
     SPI3   |-> [read |-> "Spi3Rx",   write |-> "Spi3Tx"],
     USART1 |-> [read |-> "Usart1Rx", write |-> "Usart1Tx"],
     USART2 |-> [read |-> "Usart2Rx", write |-> "Usart2Tx"],
     USART3 |-> [read |-> "Usart3Rx", write |-> "Usart3Tx"],
     ADC1   |-> [read |-> "Adc1",     write |-> "Adc1"],
     ADC2   |-> [read |-> "Adc2",     write |-> "unimplemented"]]

\* The DmaInput each impl names in read_chan / read_sel and in write_chan /
\* write_sel; the write functions of the ADCs are `unimplemented!()`.
PeriphInputs ==
    [I2C1   |-> [read |-> "I2c1Rx",   write |-> "I2c1Tx"],
     I2C2   |-> [read |-> "I2c2Rx",   write |-> "I2c2Tx"],
     SPI1   |-> [read |-> "Spi1Rx",   write |-> "Spi1Tx"],
     SPI2   |-> [read |-> "Spi2Rx",   write |-> "Spi2Tx"],
     SPI3   |-> [read |-> "Spi3Rx",   write |-> "Spi3Tx"],
     USART1 |-> [read |-> "Usart1Rx", write |-> "Usart1Tx"],
     USART2 |-> [read |-> "Usart2Rx", write |-> "Usart2Tx"],
     USART3 |-> [read |-> "Usart3Rx", write |-> "Usart3Tx"],
     ADC1   |-> [read |-> "Adc1",     write |-> "unimplemented"],
     ADC2   |-> [read |-> "Adc2",     write |-> "unimplemented"]]

\* Where the body of a DmaPeriph function starts: at the lookup or the
\* channel_select call it consists of, or at its `unimplemented!()`.
PeriphBody(input, lookup) ==
    IF input = "unimplemented" THEN "unimpl" ELSE lookup

\* `x as u8 != 0`, the argument of w.dir().bit(..), w.circ().bit(..), ...
NonZero(b) == IF b # 0 THEN 1 ELSE 0

\* impl Default for ChannelCfg
DefaultChannelCfg ==
    [priority |-> "Medium", circular |-> "Disabled",
     periph_incr |-> "Disabled", mem_incr |-> "Enabled"]

ChannelCfgs ==
    [priority : Priorities, circular : Circulars,
     periph_incr : IncrModes, mem_incr : IncrModes]

\* Arguments of cfg_channel.  periph_addr and mem_addr are u32, num_data u16;
\* the code copies them through unchanged.
PeriphAddrs == {1073807360}          \* 0x4001_0000
MemAddrs    == {536870912}           \* 0x2000_0000
NumDatas    == {16}

AllArgs ==
    [periph_addr : PeriphAddrs, mem_addr : MemAddrs, num_data : NumDatas,
     direction : Directions, periph_size : DataSizes, mem_size : DataSizes,
     cfg : ChannelCfgs]

\* A receive into a buffer with the default configuration and 16-bit
\* elements.
DefaultArgs ==
    [periph_addr |-> 1073807360, mem_addr |-> 536870912, num_data |-> 16,
     direction |-> "ReadFromPeriph", periph_size |-> "S16", mem_size |-> "S16",
     cfg |-> DefaultChannelCfg]

\* An earlier transfer of the same peripheral into another, shorter buffer.
EarlierArgs ==
    [DefaultArgs EXCEPT !.mem_addr = 536871168, !.num_data = 8]

\* What the driver of Spec passes: that receive, or a circular transmit.
DriverArgs ==
    {DefaultArgs,
     [DefaultArgs EXCEPT !.direction = "ReadFromMem",
                         !.cfg.circular = "Enabled"]}

Args(p) == IF p = "all" THEN AllArgs ELSE DriverArgs

----------------------------------------------------------------------------
(* Registers.                                                              *)

\* Reset value of DMA_CCRx.
CcrReset ==
    [en |-> 0, tcie |-> 0, htie |-> 0, teie |-> 0, dir |-> 0, circ |-> 0,
     pinc |-> 0, minc |-> 0, psize |-> 0, msize |-> 0, pl |-> 0, mem2mem |-> 0]

IsrReset == [teif |-> 0, htif |-> 0, tcif |-> 0]

RegFile ==
    [cpar |-> cpar, cmar |-> cmar, cndtr |-> cndtr, ccr |-> ccr, isr |-> isr,
     enClr |-> enClr, cselr |-> cselr, muxcr |-> muxcr]

\* "The register fields/bits MEM2MEM, PL[1:0], MSIZE[1:0], PSIZE[1:0], MINC,
\* PINC, and DIR are read-only when EN = 1": what the register holds after a
\* write of v, the enable bit aside.
CcrFieldsAfterWrite(old, v) ==
    IF old.en = 1
    THEN [old EXCEPT !.tcie = v.tcie, !.htie = v.htie, !.teie = v.teie,
                     !.circ = v.circ]
    ELSE [v EXCEPT !.en = old.en]

\* The enable bit after a write of v: a 1 is taken at once unless the
\* transfer-error flag of the channel is pending; a 0 written to an armed
\* channel is acknowledged later (HwAckDisable), until then EN reads 1.
CcrEnAfterWrite(old, v, teif) ==
    IF v.en = 1 /\ teif = 0 THEN 1 ELSE old.en

EnClrAfterWrite(old, v, teif, pending) ==
    IF v.en = 0 THEN (pending \/ old.en = 1)
    ELSE IF teif = 0 THEN FALSE ELSE pending

HwCcrWrite(ch, v) ==
    /\ ccr' = [ccr EXCEPT ![ch] =
                  [CcrFieldsAfterWrite(ccr[ch], v) EXCEPT
                      !.en = CcrEnAfterWrite(ccr[ch], v, isr[ch].teif)]]
    /\ enClr' = [enClr EXCEPT ![ch] =
                  EnClrAfterWrite(ccr[ch], v, isr[ch].teif, enClr[ch])]

----------------------------------------------------------------------------
(* Trace of one call.                                                      *)

WriteEv(reg, val) == [k |-> "write", reg |-> reg, val |-> val]
FenceEv(ord)      == [k |-> "fence", ord |-> ord]
PollEv(reg, en)   == [k |-> "poll", reg |-> reg, en |-> en]

NoCall == [op |-> "none", ch |-> 0]

\* What the caller remembers of the call that returned last: the operation,
\* its channel, whether it named the TransferError interrupt, and whether
\* the call before it was a stop on the same channel.
NoPrev ==
    [op |-> "none", ch |-> 0, te |-> FALSE, after_stop |-> FALSE]
None   == [none |-> TRUE]

----------------------------------------------------------------------------
(* The values the macros and methods write.                                *)

\* Variant: the closure clears TCIE along with EN.
DisableValue_tcie(r) == [r EXCEPT !.en = 0, !.tcie = 0]

\* Variant: the write toggles EN instead of clearing it.
DisableValue_toggle(r) == [r EXCEPT !.en = 1 - r.en]

\* w.en().clear_bit()
DisableValue(r) == [r EXCEPT !.en = 0]

\* w.en().set_bit()
EnableValue(r) == [r EXCEPT !.en = 1]

\* Variant: the MEM2MEM-clearing write already sets EN.
Mem2memClearValue_arms(r) == [r EXCEPT !.mem2mem = 0, !.en = 1]

\* w.mem2mem().clear_bit()
Mem2memClearValue(r) == [r EXCEPT !.mem2mem = 0]

\* Variant: the loop after the disabling write waits for EN to read 1.
DisablePollDone_set(r) == r.en = 1

\* Variant: the loop after the disabling write does not wait.
DisablePollDone_nowait(r) == TRUE

\* `while $ccr.read().en().bit_is_set() {}` is left when EN reads 0.
DisablePollDone(r) == r.en = 0

\* `while $ccr.read().en().bit_is_clear() {}` is left when EN reads 1.
EnablePollDone(r) == r.en = 1

\* Variant: `write` instead of `modify`: the fields the closure does not
\* name go back to their reset value.
SetCcrValue_write(r, priority, direction, circular, periph_incr, mem_incr, periph_size, mem_size) ==
    [CcrReset EXCEPT !.pl    = PriorityBits(priority),
                     !.dir   = NonZero(DirectionBits(direction)),
                     !.circ  = NonZero(CircularBits(circular)),
                     !.pinc  = NonZero(IncrModeBits(periph_incr)),
                     !.minc  = NonZero(IncrModeBits(mem_incr)),
                     !.psize = DataSizeBits(periph_size),
                     !.msize = DataSizeBits(mem_size),
                     !.tcie  = 1,
                     !.en    = 1]

\* Variant: the peripheral and memory sizes are swapped.
SetCcrValue_swapped(r, priority, direction, circular, periph_incr, mem_incr, periph_size, mem_size) ==
    [r EXCEPT !.pl    = PriorityBits(priority),
              !.dir   = NonZero(DirectionBits(direction)),
              !.circ  = NonZero(CircularBits(circular)),
              !.pinc  = NonZero(IncrModeBits(periph_incr)),
              !.minc  = NonZero(IncrModeBits(mem_incr)),
              !.psize = DataSizeBits(mem_size),
              !.msize = DataSizeBits(periph_size),
              !.tcie  = 1,
              !.en    = 1]

\* Variant: the last modify does not name TCIE.
SetCcrValue_notcie(r, priority, direction, circular, periph_incr, mem_incr, periph_size, mem_size) ==
    [r EXCEPT !.pl    = PriorityBits(priority),
              !.dir   = NonZero(DirectionBits(direction)),
              !.circ  = NonZero(CircularBits(circular)),
              !.pinc  = NonZero(IncrModeBits(periph_incr)),
              !.minc  = NonZero(IncrModeBits(mem_incr)),
              !.psize = DataSizeBits(periph_size),
              !.msize = DataSizeBits(mem_size),
              !.en    = 1]

\* Variant: the last modify leaves EN as it was read.
SetCcrValue_unarmed(r, priority, direction, circular, periph_incr, mem_incr, periph_size, mem_size) ==
    [r EXCEPT !.pl    = PriorityBits(priority),
              !.dir   = NonZero(DirectionBits(direction)),
              !.circ  = NonZero(CircularBits(circular)),
              !.pinc  = NonZero(IncrModeBits(periph_incr)),
              !.minc  = NonZero(IncrModeBits(mem_incr)),
              !.psize = DataSizeBits(periph_size),
              !.msize = DataSizeBits(mem_size),
              !.tcie  = 1]

\* The closure of the last modify of set_ccr!: every named field, TCIE and
\* EN in one value; fields it does not name keep what was read.
SetCcrValue(r, priority, direction, circular, periph_incr, mem_incr, periph_size, mem_size) ==
    [r EXCEPT !.pl    = PriorityBits(priority),
              !.dir   = NonZero(DirectionBits(direction)),
              !.circ  = NonZero(CircularBits(circular)),
              !.pinc  = NonZero(IncrModeBits(periph_incr)),
              !.minc  = NonZero(IncrModeBits(mem_incr)),
              !.psize = DataSizeBits(periph_size),
              !.msize = DataSizeBits(mem_size),
              !.tcie  = 1,
              !.en    = 1]

\* w.dmareq_id().bits(input as u8): the field takes the low 7 bits; the
\* other fields of the register keep what was read.
MuxValue(r, input) == [r EXCEPT !.dmareq_id = DmaInputCode(input) % 128]

\* Variant: `write` instead of `modify`: the fields of the other channels go
\* back to 0.
CselrValue_write(r, ch, val) == [c \in DOMAIN r |-> IF c = ch THEN val % 16 ELSE 0]

\* w.cNs().bits(val): the field CnS takes the low 4 bits; the fields of the
\* other channels keep what was read.
CselrValue(r, ch, val) == [r EXCEPT ![ch] = val % 16]

\* Variant: the arms toggle the bit instead of setting it.
InterruptEnableValue_toggle(r, interrupt) ==
    CASE interrupt = "TransferError"    -> [r EXCEPT !.teie = 1 - r.teie]
      [] interrupt = "HalfTransfer"     -> [r EXCEPT !.htie = 1 - r.htie]
      [] interrupt = "TransferComplete" -> [r EXCEPT !.tcie = 1 - r.tcie]

\* Variant: the HalfTransfer arm sets TCIE as well.
InterruptEnableValue_both(r, interrupt) ==
    CASE interrupt = "TransferError"    -> [r EXCEPT !.teie = 1]
      [] interrupt = "HalfTransfer"     -> [r EXCEPT !.htie = 1, !.tcie = 1]
      [] interrupt = "TransferComplete" -> [r EXCEPT !.tcie = 1]

\* match $interrupt_type of enable_interrupt!
InterruptEnableValue(r, interrupt) ==
    CASE interrupt = "TransferError"    -> [r EXCEPT !.teie = 1]
      [] interrupt = "HalfTransfer"     -> [r EXCEPT !.htie = 1]
      [] interrupt = "TransferComplete" -> [r EXCEPT !.tcie = 1]

\* Variant: every arm reads the flag of channel 1.
TcifIsSet_first(isr_val, ch) == isr_val[1].tcif = 1

\* Variant: the transfer-error flag is read instead.
TcifIsSet_teif(isr_val, ch) == isr_val[ch].teif = 1

\* Variant: the half-transfer flag is read instead.
TcifIsSet_htif(isr_val, ch) == isr_val[ch].htif = 1

\* match channel of transfer_is_complete: isr_val.tcifN().bit_is_set()
TcifIsSet(isr_val, ch) == isr_val[ch].tcif = 1

\* Variant: every arm names the flag of channel 1.
IfcrBit_first(f, ch, interrupt) ==
    [n    |-> 1,
     name |-> CASE interrupt = "TransferError" ->
                       IF f = "g4" THEN "teif" ELSE "cteif"
                [] interrupt = "HalfTransfer" ->
                       IF f = "g4" THEN "htif" ELSE "chtif"
                [] interrupt = "TransferComplete" ->
                       IF f = "g4" THEN "tcif" ELSE "ctcif"]

\* Variant: every kind clears the half-transfer flag.
IfcrBit_half(f, ch, interrupt) ==
    [n |-> ch, name |-> IF f = "g4" THEN "htif" ELSE "chtif"]

\* clear_interrupt: the bit self.regs.ifcr.write(|w| ..) sets; g4 names the
\* bits teifN / htifN / tcifN, the other targets cteifN / chtifN / ctcifN.
IfcrBit(f, ch, interrupt) ==
    [n    |-> ch,
     name |-> CASE interrupt = "TransferError" ->
                       IF f = "g4" THEN "teif" ELSE "cteif"
                [] interrupt = "HalfTransfer" ->
                       IF f = "g4" THEN "htif" ELSE "chtif"
                [] interrupt = "TransferComplete" ->
                       IF f = "g4" THEN "tcif" ELSE "ctcif"]

\* Variant: the bits of all three kinds of the channel are set.
IfcrWriteValue_kinds(f, ch, interrupt) ==
    {IfcrBit(f, ch, k) : k \in DmaInterrupts}

\* Variant: the bit of the kind is set for every channel.
IfcrWriteValue_all(f, ch, interrupt) ==
    {IfcrBit(f, c, interrupt) : c \in AllChannels}

\* `write` starts from the reset value 0: one bit set, every other bit 0.
IfcrWriteValue(f, ch, interrupt) == {IfcrBit(f, ch, interrupt)}

\* Write-one-to-clear: the status flags after a write of `bits` to DMA_IFCR.
IsrAfterIfcrWrite(old, bits) ==
    [c \in DOMAIN old |->
        [teif |-> IF \E b \in bits : b.n = c /\ b.name \in {"teif", "cteif"}
                  THEN 0 ELSE old[c].teif,
         htif |-> IF \E b \in bits : b.n = c /\ b.name \in {"htif", "chtif"}
                  THEN 0 ELSE old[c].htif,
         tcif |-> IF \E b \in bits : b.n = c /\ b.name \in {"tcif", "ctcif"}
                  THEN 0 ELSE old[c].tcif]]

----------------------------------------------------------------------------
(* Control flow of the macros and methods.                                 *)

\* Variant: the fence is missing.
CfgAfterCndtr_nofence == "ccr_dis_rd"

\* cfg_channel: after the three address / count writes comes the fence.
CfgAfterCndtr == "cfg_fence"

\* Variant: MEM2MEM is never cleared.
SetCcrAfterPoll_keep(circular) == "ccr_cfg_rd"

\* set_ccr!: `if let Circular::Enabled = $circular { clear MEM2MEM }`
SetCcrAfterPoll(circular) ==
    IF circular = "Enabled" THEN "ccr_m2m_rd" ELSE "ccr_cfg_rd"

\* stop: the arms C1..C7 poll after the clearing write, the arm C8 does not.
StopAfterWrite(ch) == IF ch = 8 THEN "stop_fence" ELSE "stop_poll"

\* Variant: the channel is never disabled before the enable bit is set.
EiAfterRead_skip(oe) == "ei_set_rd"

\* enable_interrupt!: `if originally_enabled { disable, poll }`
EiAfterRead(oe) == IF oe THEN "ei_dis_rd" ELSE "ei_set_rd"

\* Variant: the channel is not enabled again.
EiAfterSet_forget(oe) == "ret"

\* enable_interrupt!: `if originally_enabled { enable, poll }`
EiAfterSet(oe) == IF oe THEN "ei_en_rd" ELSE "ret"

----------------------------------------------------------------------------
(* The constructor and the RCC.                                            *)

\* The DMA controllers of a part; a handle wraps the register block of one:
\* Dma<D> takes any D with Deref<Target = dma::RegisterBlock>.
Controllers == {"DMA1", "DMA2"}

\* The peripheral name Dma::new passes to the RCC: `dma` on g0, `dma1` on
\* every other target, whatever D is.
NewPeriph(f) == IF f = "g0" THEN "dma" ELSE "dma1"

\* The controller whose clock and reset the bits dma1en / dmaen and
\* dma1rst / dmarst drive.
PeriphController(periph) == "DMA1"

\* rcc_en_reset!(ahb1, ..): the enable and the reset register.
Ahb1Enr(f) == IF f \in {"f3", "g0"} THEN "ahbenr" ELSE "ahb1enr"
Ahb1Rstr(f) == IF f \in {"f3", "g0"} THEN "ahbrstr" ELSE "ahb1rstr"

\* `no dmarst on F3`: Dma::new only enables the clock there.
NewAfterEnable(f) == IF f = "f3" THEN "new_self" ELSE "new_rst"

NoRcc ==
    [handle |-> "none", en |-> [d \in Controllers |-> 0],
     rst |-> [d \in Controllers |-> 0]]

\* The RCC after Dma::new(DMA1, rcc) on a part whose clocks were off.
ConstructedRcc == [NoRcc EXCEPT !.handle = "DMA1", !.en["DMA1"] = 1]

\* The methods take `&mut self`: there is a handle.
Constructed == rcc.handle # "none"

----------------------------------------------------------------------------------------------------------------------------------------------
(* Initial states.                                                         *)

\* The register CCR of a channel that an earlier cfg_channel(.., a) armed,
\* starting from the reset value with MEM2MEM = m2m: set_ccr! on a disabled
\* channel.
ArmedCcr(m2m, a) ==
    LET r0 == [CcrReset EXCEPT !.mem2mem = m2m]
        r1 == IF a.cfg.circular = "Enabled" THEN Mem2memClearValue(r0) ELSE r0
    IN  SetCcrValue(r1, a.cfg.priority, a.direction, a.cfg.circular,
                    a.cfg.periph_incr, a.cfg.mem_incr, a.periph_size,
                    a.mem_size)

\* Dma::new: the controller's clock is on and (f3 aside) the controller has
\* been reset, so every register holds its reset value.  MEM2MEM is never
\* set through this API; it is left as code using the PAC directly left it.
ResetRegs(m2m) ==
    /\ cpar  = [c \in Channels(family) |-> 0]
    /\ cmar  = [c \in Channels(family) |-> 0]
    /\ cndtr = [c \in Channels(family) |-> 0]
    /\ ccr   = [c \in Channels(family) |->
                   IF c \in scope THEN [CcrReset EXCEPT !.mem2mem = m2m]
                   ELSE CcrReset]
    /\ isr   = [c \in Channels(family) |-> IsrReset]
    /\ enClr = [c \in Channels(family) |-> FALSE]

\* The register file with the channels of `scope` armed by an earlier
\* cfg_channel(.., a) on the reset state.
ArmedRegs(m2m, a) ==
    /\ cpar  = [c \in Channels(family) |->
                   IF c \in scope THEN a.periph_addr ELSE 0]
    /\ cmar  = [c \in Channels(family) |->
                   IF c \in scope THEN a.mem_addr ELSE 0]
    /\ cndtr = [c \in Channels(family) |->
                   IF c \in scope THEN a.num_data ELSE 0]
    /\ ccr   = [c \in Channels(family) |->
                   IF c \in scope THEN ArmedCcr(m2m, a) ELSE CcrReset]
    /\ isr   = [c \in Channels(family) |-> IsrReset]
    /\ enClr = [c \in Channels(family) |-> FALSE]

\* The register file of a controller two of whose channels, the first and
\* the last, were armed by an earlier cfg_channel(.., a).  The transfer of
\* the channel outside `scope` has failed; that of the channel in `scope`
\* has failed too when `failed`, and is still under way otherwise.  After a
\* transfer error the hardware has cleared EN and set TEIF.
RecoverRegs(m2m, a, failed) ==
    LET used(c) == c \in EndChannels(family)
        err(c)  == used(c) /\ (c \notin scope \/ failed)
    IN  /\ cpar  = [c \in Channels(family) |->
                       IF used(c) THEN a.periph_addr ELSE 0]
        /\ cmar  = [c \in Channels(family) |->
                       IF used(c) THEN a.mem_addr ELSE 0]
        /\ cndtr = [c \in Channels(family) |->
                       IF used(c) THEN a.num_data ELSE 0]
        /\ ccr   = [c \in Channels(family) |->
                       IF err(c) THEN [ArmedCcr(m2m, a) EXCEPT !.en = 0]
                       ELSE IF used(c) THEN ArmedCcr(m2m, a)
                       ELSE CcrReset]
        /\ isr   = [c \in Channels(family) |->
                       IF err(c) THEN [IsrReset EXCEPT !.teif = 1]
                       ELSE IsrReset]
        /\ enClr = [c \in Channels(family) |-> FALSE]

\* Reset values of the request-selection registers.
CselrReset == [c \in 1..7 |-> 0]
MuxCrReset == [dmareq_id |-> 0, rest |-> 0]

\* A thread of control that is not inside a call and may make n calls.
IdleThread(n) ==
    [pc |-> "idle", call |-> NoCall, tmp |-> None, originally_enabled |-> FALSE,
     ret |-> FALSE, trace |-> << >>, entry |-> None, prev |-> NoPrev,
     callsLeft |-> n]

\* One thread of control, outside any call; nothing else runs.
InitThread ==
    /\ pc = "idle"
    /\ call = NoCall
    /\ tmp = None
    /\ originally_enabled = FALSE
    /\ ret = FALSE
    /\ trace = << >>
    /\ entry = None
    /\ prev = NoPrev
    /\ saved = IdleThread(0)
    /\ buf = "none"
    /\ rcc = ConstructedRcc
    /\ peripheral = "none"

\* The request-selection registers after reset.
InitSel ==
    /\ cselr = CselrReset
    /\ muxcr = [c \in AllChannels |-> MuxCrReset]

\* The driver of one channel, entered right after construction or with its
\* channel armed by an earlier cfg_channel.
Init ==
    /\ family \in Targets
    /\ \E c \in Channels(family) : scope = {c}
    /\ pool = "driver"
    /\ callsLeft = MaxCalls
    /\ hwLeft = MaxHwEvents
    /\ InitThread
    /\ InitSel
    /\ \E m2m \in {0, 1} : ResetRegs(m2m) \/ ArmedRegs(m2m, DefaultArgs)

\* One cfg_channel call with any argument tuple, on any channel of a g4
\* build.
InitCfg ==
    /\ family = "g4"
    /\ \E c \in Channels(family) : scope = {c}
    /\ pool = "all"
    /\ callsLeft = 1
    /\ hwLeft = MaxHwEvents
    /\ InitThread
    /\ InitSel
    /\ \E m2m \in {0, 1} : ResetRegs(m2m) \/ ArmedRegs(m2m, DefaultArgs)

\* The driver of the first or the last channel of a g4 build that recovers
\* from errors: it is entered with its channel armed by an earlier
\* cfg_channel, or after that transfer has failed, beside a channel of
\* another driver that has failed, and makes one call more than the driver
\* of Spec.
InitRecover ==
    /\ family = "g4"
    /\ \E c \in EndChannels(family) : scope = {c}
    /\ pool = "driver"
    /\ callsLeft = MaxCalls + 1
    /\ hwLeft = MaxHwEvents
    /\ InitThread
    /\ InitSel
    /\ \E m2m \in {0, 1}, failed \in BOOLEAN :
          RecoverRegs(m2m, EarlierArgs, failed)

\* One thread binds inputs to one channel of a g4 build.  The multiplexer
\* registers of the other channels hold the bindings earlier mux calls made
\* (channel c to the input with identifier c + 9); `rest` are the bits of
\* the registers this module does not name, as code using the PAC left them.
InitMux ==
    /\ family = "g4"
    /\ \E c \in Channels(family) : scope = {c}
    /\ pool = "all"
    /\ callsLeft = MaxCalls
    /\ hwLeft = 0
    /\ InitThread
    /\ ResetRegs(0)
    /\ cselr = CselrReset
    /\ \E rest \in {0, 1} :
          muxcr = [c \in AllChannels |->
                      [dmareq_id |-> IF c \in scope THEN 0 ELSE c + 9,
                       rest |-> rest]]

\* The register file in which every channel is as `kinds` says: "reset",
\* "armed" by an earlier cfg_channel(.., a), or "failed" after that.
KindRegs(kinds, m2m, a) ==
    /\ cpar  = [c \in Channels(family) |->
                   IF kinds[c] = "reset" THEN 0 ELSE a.periph_addr]
    /\ cmar  = [c \in Channels(family) |->
                   IF kinds[c] = "reset" THEN 0 ELSE a.mem_addr]
    /\ cndtr = [c \in Channels(family) |->
                   IF kinds[c] = "reset" THEN 0 ELSE a.num_data]
    /\ ccr   = [c \in Channels(family) |->
                   CASE kinds[c] = "reset"  -> [CcrReset EXCEPT !.mem2mem = m2m]
                     [] kinds[c] = "armed"  -> ArmedCcr(m2m, a)
                     [] kinds[c] = "failed" -> [ArmedCcr(m2m, a) EXCEPT !.en = 0]]
    /\ isr   = [c \in Channels(family) |->
                   IF kinds[c] = "failed" THEN [IsrReset EXCEPT !.teif = 1]
                   ELSE IsrReset]
    /\ enClr = [c \in Channels(family) |-> FALSE]

\* The driver of the first or the last channel of a g4 build, entered with
\* its channel fresh, armed by an earlier cfg_channel, or failed after that.
InitLive ==
    /\ family = "g4"
    /\ \E c \in EndChannels(family) : scope = {c}
    /\ pool = "driver"
    /\ callsLeft = MaxCalls
    /\ hwLeft = MaxHwEvents
    /\ InitThread
    /\ InitSel
    /\ \E kinds \in [Channels(family) -> {"reset", "armed", "failed"}] :
          /\ \A c \in Channels(family) \ scope : kinds[c] = "reset"
          /\ KindRegs(kinds, 0, EarlierArgs)

\* The driver of the first or the last channel, entered after the transfer
\* an earlier cfg_channel(.., a) armed has moved its last element: TCIF of
\* the channel is set and nobody has cleared it.  The channel is still
\* enabled, or a stop has disabled it since; HTIF is set too unless the
\* driver's interrupt handler cleared it at half time.
InitFinished ==
    /\ family \in Targets
    /\ \E c \in EndChannels(family) : scope = {c}
    /\ pool = "driver"
    /\ callsLeft = MaxCalls
    /\ hwLeft = MaxHwEvents
    /\ InitThread
    /\ InitSel
    /\ cpar  = [c \in Channels(family) |->
                   IF c \in scope THEN EarlierArgs.periph_addr ELSE 0]
    /\ cmar  = [c \in Channels(family) |->
                   IF c \in scope THEN EarlierArgs.mem_addr ELSE 0]
    /\ cndtr = [c \in Channels(family) |-> 0]
    /\ \E en \in {0, 1}, htif \in {0, 1} :
          /\ ccr = [c \in Channels(family) |->
                       IF c \in scope
                       THEN [ArmedCcr(0, EarlierArgs) EXCEPT !.en = en]
                       ELSE CcrReset]
          /\ isr = [c \in Channels(family) |->
                       IF c \in scope
                       THEN [teif |-> 0, htif |-> htif, tcif |-> 1]
                       ELSE IsrReset]
    /\ enClr = [c \in Channels(family) |-> FALSE]

\* DMA_CSELR after earlier channel_select calls have bound channel 1 to
\* Adc1 (0b000) and each of the channels 2..7 to a USART (0b010).
EarlierCselr == [c \in 1..7 |-> IF c = 1 THEN 0 ELSE 2]

\* One thread selects inputs on an l4 build with any input of the
\* enumeration, from the reset value of DMA_CSELR or after earlier calls.
InitChannelSelect ==
    /\ family = "l4"
    /\ scope = Channels(family)
    /\ pool = "all"
    /\ callsLeft = MaxCalls
    /\ hwLeft = 0
    /\ InitThread
    /\ ResetRegs(0)
    /\ cselr \in {CselrReset, EarlierCselr}
    /\ muxcr = [c \in AllChannels |-> MuxCrReset]

\* The driver of one peripheral on an f3 or l4 build, generic over the
\* peripheral type: it calls the DmaPeriph functions of its type, with the
\* controller as constructed or DMA_CSELR as earlier calls left it.
InitPeriph ==
    /\ family \in {"f3", "l4"}
    /\ peripheral \in DmaPeriphs(family)
    /\ scope = Channels(family)
    /\ pool = "all"
    /\ callsLeft = MaxCalls
    /\ hwLeft = 0
    /\ pc = "idle"
    /\ call = NoCall
    /\ tmp = None
    /\ originally_enabled = FALSE
    /\ ret = FALSE
    /\ trace = << >>
    /\ entry = None
    /\ prev = NoPrev
    /\ saved = IdleThread(0)
    /\ buf = "none"
    /\ rcc = ConstructedRcc
    /\ ResetRegs(0)
    /\ cselr \in (IF family = "l4" THEN {CselrReset, EarlierCselr}
                  ELSE {CselrReset})
    /\ muxcr = [c \in AllChannels |-> MuxCrReset]

\* The driver of the first or the last channel of a g4 build that fills a
\* buffer before it arms the channel and reads it after it has stopped the
\* channel; it is entered right after construction or with its channel
\* armed by an earlier cfg_channel.
InitFence ==
    /\ family = "g4"
    /\ \E c \in EndChannels(family) : scope = {c}
    /\ pool = "driver"
    /\ callsLeft = MaxCalls
    /\ hwLeft = MaxHwEvents
    /\ InitThread
    /\ InitSel
    /\ \E m2m \in {0, 1} : ResetRegs(m2m) \/ ArmedRegs(m2m, EarlierArgs)

\* A part before the handle exists: the clocks of the controllers on or
\* off, as the reset or earlier code left them, and the registers of the
\* controller the handle will wrap at their reset values or, when that
\* controller was clocked, as an earlier cfg_channel left them.
InitNew ==
    /\ family \in Targets
    /\ \E c \in EndChannels(family) : scope = {c}
    /\ pool = "driver"
    /\ callsLeft = MaxCalls
    /\ hwLeft = 0
    /\ pc = "idle"
    /\ call = NoCall
    /\ tmp = None
    /\ originally_enabled = FALSE
    /\ ret = FALSE
    /\ trace = << >>
    /\ entry = None
    /\ prev = NoPrev
    /\ saved = IdleThread(0)
    /\ buf = "none"
    /\ InitSel
    /\ \E en \in [Controllers -> {0, 1}] : rcc = [NoRcc EXCEPT !.en = en]
    /\ peripheral = "none"
    /\ ResetRegs(0) \/ ArmedRegs(0, EarlierArgs)

\* Two threads of control drive the first and the last channel of a g4
\* build, one call each; each channel is fresh, armed or failed.
InitPar ==
    /\ family = "g4"
    /\ scope = EndChannels(family)
    /\ pool = "driver"
    /\ callsLeft = 1
    /\ hwLeft = 0
    /\ pc = "idle"
    /\ call = NoCall
    /\ tmp = None
    /\ originally_enabled = FALSE
    /\ ret = FALSE
    /\ trace = << >>
    /\ entry = None
    /\ prev = NoPrev
    /\ saved = IdleThread(1)
    /\ buf = "none"
    /\ rcc = ConstructedRcc
    /\ peripheral = "none"
    /\ InitSel
    /\ \E m2m \in {0, 1} :
       \E kinds \in [Channels(family) -> {"reset", "armed", "failed"}] :
          /\ \A c \in Channels(family) \ scope : kinds[c] = "reset"
          /\ KindRegs(kinds, m2m, EarlierArgs)

\* Two threads of control select the inputs of channels 2 and 3, one call
\* each: with channel_select on an l4 build, with mux on a g4 build.
InitSelect ==
    /\ family \in {"l4", "g4"}
    /\ scope = {2, 3}
    /\ pool = "driver"
    /\ callsLeft = 1
    /\ hwLeft = 0
    /\ pc = "idle"
    /\ call = NoCall
    /\ tmp = None
    /\ originally_enabled = FALSE
    /\ ret = FALSE
    /\ trace = << >>
    /\ entry = None
    /\ prev = NoPrev
    /\ saved = IdleThread(1)
    /\ buf = "none"
    /\ rcc = ConstructedRcc
    /\ peripheral = "none"
    /\ ResetRegs(0)
    /\ InitSel

----------
(* Calls and returns.                                                      *)

\* Two threads of control drive different channels: a thread calls into a
\* channel only if the other thread is not using it and has not used it.
Owns(ch) == ch # saved.call.ch /\ ch # saved.prev.ch

Begin(c) ==
    /\ pc = "idle"
    /\ callsLeft > 0
    /\ callsLeft' = callsLeft - 1
    /\ call' = c
    /\ trace' = << >>
    /\ entry' = RegFile
    /\ UNCHANGED <<family, scope, pool, hwLeft, tmp, originally_enabled, ret,
                   prev, regvars, selvars, saved, buf, rcc, peripheral>>

CallCfgChannel ==
    /\ pc = "idle"
    /\ callsLeft > 0
    /\ Constructed
    /\ \E ch \in scope, a \in Args(pool) :
          /\ Owns(ch)
          /\ Begin([op |-> "cfg_channel", ch |-> ch, args |-> a])
          /\ pc' = "cfg_cpar"

CallStop ==
    \E ch \in scope :
        /\ Constructed
        /\ Owns(ch)
        /\ Begin([op |-> "stop", ch |-> ch])
        /\ pc' = "stop_rd"

CallTransferIsComplete ==
    \E ch \in scope :
        /\ Constructed
        /\ Owns(ch)
        /\ Begin([op |-> "transfer_is_complete", ch |-> ch])
        /\ pc' = "tic_rd"

CallEnableInterrupt ==
    \E ch \in scope, i \in DmaInterrupts :
        /\ Constructed
        /\ Owns(ch)
        /\ Begin([op |-> "enable_interrupt", ch |-> ch, interrupt |-> i])
        /\ pc' = "ei_rd"

CallClearInterrupt ==
    \E ch \in scope, i \in DmaInterrupts :
        /\ Constructed
        /\ Owns(ch)
        /\ Begin([op |-> "clear_interrupt", ch |-> ch, interrupt |-> i])
        /\ pc' = "ci_wr"

\* The call returns: its locals die, the caller remembers which call it was.
Return ==
    /\ pc = "ret"
    /\ pc' = "idle"
    /\ prev' = [op |-> call.op, ch |-> call.ch,
                te |-> (/\ call.op \in {"enable_interrupt", "clear_interrupt"}
                        /\ call.interrupt = "TransferError"),
                after_stop |-> (prev.op = "stop" /\ prev.ch = call.ch)]
    /\ call' = NoCall
    /\ tmp' = None
    /\ originally_enabled' = FALSE
    /\ ret' = FALSE
    /\ trace' = << >>
    /\ entry' = None
    /\ UNCHANGED <<family, scope, pool, callsLeft, hwLeft, regvars, selvars,
                   saved, buf, rcc, peripheral>>

----------------------------------------------------------------------------
(* Dma::new                                                                *)

\* Dma::new(regs, rcc): regs is the register block of any controller.
CallNew ==
    /\ pc = "idle"
    /\ callsLeft > 0
    /\ ~Constructed
    /\ \E d \in Controllers :
          /\ Begin([op |-> "new", ch |-> 0, regs |-> d])
          /\ pc' = "new_en"

NewStep(here, next) ==
    /\ pc = here
    /\ pc' = next
    /\ UNCHANGED <<family, scope, pool, callsLeft, hwLeft, call, entry, prev, buf,
                   tmp, originally_enabled, ret, selvars, saved, peripheral>>

\* $rcc.ahb1enr.modify(|_, w| w.dma1en().set_bit())
NewEnable ==
    /\ NewStep("new_en", NewAfterEnable(family))
    /\ rcc' = [rcc EXCEPT !.en[PeriphController(NewPeriph(family))] = 1]
    /\ trace' = Append(trace,
                  WriteEv([name |-> Ahb1Enr(family), n |-> 0],
                          [bit |-> NewPeriph(family) \o "en", v |-> 1]))
    /\ UNCHANGED regvars

\* $rcc.ahb1rstr.modify(|_, w| w.dma1rst().set_bit()): the controller the
\* bit drives goes back to its reset state.
NewResetSet ==
    /\ NewStep("new_rst", "new_clr")
    /\ rcc' = [rcc EXCEPT !.rst[PeriphController(NewPeriph(family))] = 1]
    /\ trace' = Append(trace,
                  WriteEv([name |-> Ahb1Rstr(family), n |-> 0],
                          [bit |-> NewPeriph(family) \o "rst", v |-> 1]))
    /\ IF call.regs = PeriphController(NewPeriph(family))
       THEN /\ cpar'  = [c \in Channels(family) |-> 0]
            /\ cmar'  = [c \in Channels(family) |-> 0]
            /\ cndtr' = [c \in Channels(family) |-> 0]
            /\ ccr'   = [c \in Channels(family) |-> CcrReset]
            /\ isr'   = [c \in Channels(family) |-> IsrReset]
            /\ enClr' = [c \in Channels(family) |-> FALSE]
       ELSE UNCHANGED regvars

\* $rcc.ahb1rstr.modify(|_, w| w.dma1rst().clear_bit())
NewResetClear ==
    /\ NewStep("new_clr", "new_self")
    /\ rcc' = [rcc EXCEPT !.rst[PeriphController(NewPeriph(family))] = 0]
    /\ trace' = Append(trace,
                  WriteEv([name |-> Ahb1Rstr(family), n |-> 0],
                          [bit |-> NewPeriph(family) \o "rst", v |-> 0]))
    /\ UNCHANGED regvars

\* Self { regs }
NewSelf ==
    /\ NewStep("new_self", "ret")
    /\ rcc' = [rcc EXCEPT !.handle = call.regs]
    /\ UNCHANGED <<trace, regvars>>

----------------------------------------------------------------------------
(* Steps shared by the macros.                                             *)

Frame0 ==
    UNCHANGED <<family, scope, pool, callsLeft, hwLeft, call, entry, prev, buf,
                rcc, peripheral>>

Frame ==
    /\ Frame0
    /\ UNCHANGED <<selvars, saved>>

\* The read half of `$ccr.modify(..)`.
ModifyRead(here, next) ==
    /\ pc = here
    /\ pc' = next
    /\ tmp' = ccr[call.ch]
    /\ Frame
    /\ UNCHANGED <<originally_enabled, ret, trace, regvars>>

\* The write half of `$ccr.modify(..)`: v is the closure's result.
ModifyWrite(here, next, v) ==
    /\ pc = here
    /\ pc' = next
    /\ HwCcrWrite(call.ch, v)
    /\ trace' = Append(trace, WriteEv(Reg(family, call.ch, "cr"), v))
    /\ tmp' = None
    /\ Frame
    /\ UNCHANGED <<originally_enabled, ret, cpar, cmar, cndtr, isr>>

\* A polling loop on EN: the thread stays in it until `done` holds of the
\* value read.
Poll(here, next, done) ==
    /\ pc = here
    /\ done
    /\ pc' = next
    /\ trace' = Append(trace, PollEv(Reg(family, call.ch, "cr"), ccr[call.ch].en))
    /\ Frame
    /\ UNCHANGED <<tmp, originally_enabled, ret, regvars>>

\* Variant: the fence orders nothing.
FenceOrders_relaxed(ord, b) == TRUE

\* atomic::compiler_fence(Release) and (SeqCst): a memory access that
\* precedes the fence in program order is not moved after it, so a store
\* the compiler has not yet placed is performed before the fence is passed.
FenceOrders(ord, b) == ord \in {"Release", "SeqCst"} => b # "pending"

Fence(here, next, ord) ==
    /\ pc = here
    /\ FenceOrders(ord, buf)
    /\ pc' = next
    /\ trace' = Append(trace, FenceEv(ord))
    /\ Frame
    /\ UNCHANGED <<tmp, originally_enabled, ret, regvars>>

----------------------------------------------------------------------------
(* cfg_channel                                                             *)

\* 1. cpar.write(|w| w.bits(periph_addr))
CfgWriteCpar ==
    /\ pc = "cfg_cpar"
    /\ pc' = "cfg_cmar"
    /\ cpar' = [cpar EXCEPT ![call.ch] = call.args.periph_addr]
    /\ trace' = Append(trace, WriteEv(Reg(family, call.ch, "par"),
                                      call.args.periph_addr))
    /\ Frame
    /\ UNCHANGED <<tmp, originally_enabled, ret, cmar, cndtr, ccr, isr, enClr>>

\* 2. cmar.write(|w| w.bits(mem_addr))
CfgWriteCmar ==
    /\ pc = "cfg_cmar"
    /\ pc' = "cfg_cndtr"
    /\ cmar' = [cmar EXCEPT ![call.ch] = call.args.mem_addr]
    /\ trace' = Append(trace, WriteEv(Reg(family, call.ch, "mar"),
                                      call.args.mem_addr))
    /\ Frame
    /\ UNCHANGED <<tmp, originally_enabled, ret, cpar, cndtr, ccr, isr, enClr>>

\* 3. cndtr.write(|w| w.ndt().bits(num_data))
CfgWriteCndtr ==
    /\ pc = "cfg_cndtr"
    /\ pc' = CfgAfterCndtr
    /\ cndtr' = [cndtr EXCEPT ![call.ch] = call.args.num_data]
    /\ trace' = Append(trace, WriteEv(Reg(family, call.ch, "ndtr"),
                                      call.args.num_data))
    /\ Frame
    /\ UNCHANGED <<tmp, originally_enabled, ret, cpar, cmar, ccr, isr, enClr>>

\* atomic::compiler_fence(Ordering::Release)
CfgFence == Fence("cfg_fence", "ccr_dis_rd", "Release")

\* set_ccr!: $ccr.modify(|_, w| w.en().clear_bit())
SetCcrDisableRead == ModifyRead("ccr_dis_rd", "ccr_dis_wr")
SetCcrDisableWrite == ModifyWrite("ccr_dis_wr", "ccr_poll", DisableValue(tmp))

\* set_ccr!: while $ccr.read().en().bit_is_set() {}
SetCcrPoll ==
    Poll("ccr_poll", SetCcrAfterPoll(call.args.cfg.circular),
         DisablePollDone(ccr[call.ch]))

\* set_ccr!: $ccr.modify(|_, w| w.mem2mem().clear_bit())
SetCcrMem2memRead == ModifyRead("ccr_m2m_rd", "ccr_m2m_wr")
SetCcrMem2memWrite ==
    ModifyWrite("ccr_m2m_wr", "ccr_cfg_rd", Mem2memClearValue(tmp))

\* set_ccr!: the modify that writes the fields, TCIE and EN.
SetCcrConfigRead == ModifyRead("ccr_cfg_rd", "ccr_cfg_wr")
SetCcrConfigWrite ==
    ModifyWrite("ccr_cfg_wr", "ret",
        SetCcrValue(tmp, call.args.cfg.priority, call.args.direction,
                    call.args.cfg.circular, call.args.cfg.periph_incr,
                    call.args.cfg.mem_incr, call.args.periph_size,
                    call.args.mem_size))

----------------------------------------------------------------------------
(* stop                                                                    *)

\* ccr.modify(|_, w| w.en().clear_bit())
StopRead == ModifyRead("stop_rd", "stop_wr")
StopWrite == ModifyWrite("stop_wr", StopAfterWrite(call.ch), DisableValue(tmp))

\* while ccr.read().en().bit_is_set() {}
StopPoll == Poll("stop_poll", "stop_fence", DisablePollDone(ccr[call.ch]))

\* atomic::compiler_fence(Ordering::SeqCst)
StopFence == Fence("stop_fence", "ret", "SeqCst")

----------------------------------------------------------------------------
(* transfer_is_complete                                                    *)

\* let isr_val = self.regs.isr.read(); match channel { .. }
TransferIsCompleteRead ==
    /\ pc = "tic_rd"
    /\ pc' = "ret"
    /\ ret' = TcifIsSet(isr, call.ch)
    /\ Frame
    /\ UNCHANGED <<tmp, originally_enabled, trace, regvars>>

----------------------------------------------------------------------------
(* enable_interrupt                                                        *)

\* let originally_enabled = $ccr.read().en().bit_is_set();
EiReadEnabled ==
    /\ pc = "ei_rd"
    /\ originally_enabled' = (ccr[call.ch].en = 1)
    /\ pc' = EiAfterRead(ccr[call.ch].en = 1)
    /\ Frame
    /\ UNCHANGED <<tmp, ret, trace, regvars>>

EiDisableRead == ModifyRead("ei_dis_rd", "ei_dis_wr")
EiDisableWrite == ModifyWrite("ei_dis_wr", "ei_poll", DisableValue(tmp))
EiDisablePoll == Poll("ei_poll", "ei_set_rd", DisablePollDone(ccr[call.ch]))

EiSetRead == ModifyRead("ei_set_rd", "ei_set_wr")
EiSetWrite ==
    ModifyWrite("ei_set_wr", EiAfterSet(originally_enabled),
                InterruptEnableValue(tmp, call.interrupt))

EiEnableRead == ModifyRead("ei_en_rd", "ei_en_wr")
EiEnableWrite == ModifyWrite("ei_en_wr", "ei_wait", EnableValue(tmp))
EiEnablePoll == Poll("ei_wait", "ret", EnablePollDone(ccr[call.ch]))

----------------------------------------------------------------------------
(* clear_interrupt                                                         *)

\* self.regs.ifcr.write(|w| w.cteifN().set_bit()) and its siblings
ClearInterruptWrite ==
    /\ pc = "ci_wr"
    /\ pc' = "ret"
    /\ isr' = IsrAfterIfcrWrite(isr,
                 IfcrWriteValue(family, call.ch, call.interrupt))
    /\ trace' = Append(trace,
                 WriteEv([name |-> "ifcr", n |-> 0],
                         IfcrWriteValue(family, call.ch, call.interrupt)))
    /\ Frame
    /\ UNCHANGED <<tmp, originally_enabled, ret, cpar, cmar, cndtr, ccr, enClr>>

----------------------------------------------------------------------------
(* mux and channel_select                                                  *)

\* A request-selection call: the other registers and the other thread are
\* left alone.
SelStep(here, next) ==
    /\ pc = here
    /\ pc' = next
    /\ Frame0
    /\ UNCHANGED <<originally_enabled, ret, regvars, saved>>

CallMux ==
    /\ pc = "idle"
    /\ callsLeft > 0
    /\ HasMux(family)
    /\ \E ch \in scope, i \in Inputs(pool) :
          /\ Owns(ch)
          /\ Begin([op |-> "mux", ch |-> ch, input |-> i])
          /\ pc' = "mux_rd"

\* The read half of mux.cNcr.modify(..)
MuxRead ==
    /\ SelStep("mux_rd", "mux_wr")
    /\ tmp' = muxcr[call.ch]
    /\ UNCHANGED <<trace, selvars>>

\* The write half of mux.cNcr.modify(|_, w| w.dmareq_id().bits(input as u8))
MuxWrite ==
    /\ SelStep("mux_wr", "ret")
    /\ muxcr' = [muxcr EXCEPT ![call.ch] = MuxValue(tmp, call.input)]
    /\ trace' = Append(trace, WriteEv([name |-> "cNcr", n |-> call.ch],
                                      MuxValue(tmp, call.input)))
    /\ tmp' = None
    /\ UNCHANGED cselr

\* channel_select(input): the channel is input.dma1_channel().
CallChannelSelect ==
    /\ pc = "idle"
    /\ callsLeft > 0
    /\ Constructed
    /\ HasChannelSelect(family)
    /\ \E i \in Inputs(pool) :
          /\ i \in DOMAIN Dma1Channels => Owns(Dma1Channels[i])
          /\ Begin([op |-> "channel_select",
                    ch |-> IF i \in DOMAIN Dma1Channels
                           THEN Dma1Channels[i] ELSE 0,
                    input |-> i])
          /\ pc' = "cs_val"

\* let val = input.dma1_channel_select(); match input.dma1_channel() { .. }
\* and the read half of self.regs.cselr.modify(..)
ChannelSelectRead ==
    /\ pc = "cs_val"
    /\ call.input \in DOMAIN Dma1ChannelSelects
    /\ call.input \in DOMAIN Dma1Channels
    /\ SelStep("cs_val", "cs_wr")
    /\ tmp' = cselr
    /\ UNCHANGED <<trace, selvars>>

\* An input without an arm: unimplemented!() panics before any register
\* access.
ChannelSelectPanic ==
    /\ pc = "cs_val"
    /\ \/ call.input \notin DOMAIN Dma1ChannelSelects
       \/ call.input \notin DOMAIN Dma1Channels
    /\ SelStep("cs_val", "panic")
    /\ UNCHANGED <<tmp, trace, selvars>>

\* The write half of self.regs.cselr.modify(|_, w| w.cNs().bits(val))
ChannelSelectWrite ==
    /\ SelStep("cs_wr", "ret")
    /\ cselr' = CselrValue(tmp, call.ch, Dma1ChannelSelects[call.input])
    /\ trace' = Append(trace,
                  WriteEv([name |-> "cselr", n |-> 0],
                          CselrValue(tmp, call.ch,
                                     Dma1ChannelSelects[call.input])))
    /\ tmp' = None
    /\ UNCHANGED muxcr

----------------------------------------------------------------------------
(* trait DmaPeriph                                                         *)

\* P::read_chan()
CallReadChan ==
    /\ pc = "idle"
    /\ HasDmaPeriph(family)
    /\ peripheral \in DmaPeriphs(family)
    /\ Begin([op |-> "read_chan", ch |-> 0,
              input |-> PeriphInputs[peripheral].read])
    /\ pc' = PeriphBody(PeriphInputs[peripheral].read, "chan_val")

\* P::write_chan()
CallWriteChan ==
    /\ pc = "idle"
    /\ HasDmaPeriph(family)
    /\ peripheral \in DmaPeriphs(family)
    /\ Begin([op |-> "write_chan", ch |-> 0,
              input |-> PeriphInputs[peripheral].write])
    /\ pc' = PeriphBody(PeriphInputs[peripheral].write, "chan_val")

\* P::read_sel(dma): dma.channel_select(DmaInput::..)
CallReadSel ==
    /\ pc = "idle"
    /\ HasChannelSelect(family)
    /\ peripheral \in DmaPeriphs(family)
    /\ Constructed
    /\ LET i == PeriphInputs[peripheral].read
       IN  /\ Begin([op |-> "read_sel",
                     ch |-> IF i \in DOMAIN Dma1Channels
                            THEN Dma1Channels[i] ELSE 0,
                     input |-> i])
           /\ pc' = PeriphBody(i, "cs_val")

\* P::write_sel(dma): dma.channel_select(DmaInput::..)
CallWriteSel ==
    /\ pc = "idle"
    /\ HasChannelSelect(family)
    /\ peripheral \in DmaPeriphs(family)
    /\ Constructed
    /\ LET i == PeriphInputs[peripheral].write
       IN  /\ Begin([op |-> "write_sel",
                     ch |-> IF i \in DOMAIN Dma1Channels
                            THEN Dma1Channels[i] ELSE 0,
                     input |-> i])
           /\ pc' = PeriphBody(i, "cs_val")

\* DmaInput::X.dma1_channel() with an arm for X: the channel is returned.
ChanReturn ==
    /\ pc = "chan_val"
    /\ call.input \in DOMAIN Dma1Channels
    /\ pc' = "ret"
    /\ ret' = Dma1Channels[call.input]
    /\ Frame
    /\ UNCHANGED <<tmp, originally_enabled, trace, regvars>>

\* DmaInput::X.dma1_channel() without an arm for X: unimplemented!().
ChanPanic ==
    /\ pc = "chan_val"
    /\ call.input \notin DOMAIN Dma1Channels
    /\ SelStep("chan_val", "panic")
    /\ UNCHANGED <<tmp, trace, selvars>>

\* A function whose body is unimplemented!().
PeriphUnimplemented ==
    /\ SelStep("unimpl", "panic")
    /\ UNCHANGED <<tmp, trace, selvars>>

----------------------------------------------------------------------------
(* A second thread of control.                                             *)

\* The position and locals of the running thread.
Running ==
    [pc |-> pc, call |-> call, tmp |-> tmp,
     originally_enabled |-> originally_enabled, ret |-> ret, trace |-> trace,
     entry |-> entry, prev |-> prev, callsLeft |-> callsLeft]

\* The running thread is preempted (by an interrupt handler, or by the other
\* thread of control) and the suspended one goes on where it was.
Switch ==
    /\ saved.pc # "idle" \/ saved.callsLeft > 0
    /\ saved' = Running
    /\ pc' = saved.pc
    /\ call' = saved.call
    /\ tmp' = saved.tmp
    /\ originally_enabled' = saved.originally_enabled
    /\ ret' = saved.ret
    /\ trace' = saved.trace
    /\ entry' = saved.entry
    /\ prev' = saved.prev
    /\ callsLeft' = saved.callsLeft
    /\ UNCHANGED <<family, scope, pool, hwLeft, regvars, selvars, buf, rcc,
                   peripheral>>

----------------------------------------------------------------------------
(* The caller's accesses to the transfer buffer.                           *)

BufFrame ==
    UNCHANGED <<family, scope, pool, callsLeft, hwLeft, pc, call, tmp,
                originally_enabled, ret, trace, entry, prev, regvars, selvars,
                saved, rcc, peripheral>>

\* The statement that fills the buffer, before the call in program order: a
\* plain store, which the compiler may perform later than where it stands.
PopulateBuffer ==
    /\ pc = "idle"
    /\ callsLeft > 0
    /\ buf # "pending"
    /\ buf' = "pending"
    /\ BufFrame

\* The store is performed: where it stands, or sunk into the call that
\* follows it.
StorePerformed ==
    /\ buf = "pending"
    /\ buf' = (IF pc = "idle" THEN "stored" ELSE "sunk")
    /\ BufFrame

\* A statement that reads the buffer, after stop in program order: a plain
\* load, which the compiler may perform earlier than where it stands, but
\* not before a fence that precedes it.
BufferRead ==
    /\ pc # "idle"
    /\ call.op = "stop"
    /\ \E k \in 1..Len(trace) : trace[k] = FenceEv("SeqCst")
    /\ buf \notin {"pending", "read"}
    /\ buf' = "read"
    /\ BufFrame

----------------------------------------------------------------------------
(* Hardware.                                                               *)

HwFrame ==
    UNCHANGED <<family, scope, pool, callsLeft, pc, call, tmp,
                originally_enabled, ret, trace, entry, prev, selvars, saved,
                buf, rcc, peripheral>>

\* The controller acknowledges a cleared EN: from now on EN reads 0.
HwAckDisable ==
    \E ch \in Channels(family) :
        /\ enClr[ch]
        /\ ccr' = [ccr EXCEPT ![ch].en = 0]
        /\ enClr' = [enClr EXCEPT ![ch] = FALSE]
        /\ HwFrame
        /\ UNCHANGED <<hwLeft, cpar, cmar, cndtr, isr>>

\* Half of the elements of an armed channel have been moved.
HwHalfTransfer ==
    \E ch \in Channels(family) :
        /\ hwLeft > 0
        /\ hwLeft' = hwLeft - 1
        /\ ccr[ch].en = 1
        /\ isr[ch].htif = 0
        /\ isr' = [isr EXCEPT ![ch].htif = 1]
        /\ HwFrame
        /\ UNCHANGED <<cpar, cmar, cndtr, ccr, enClr>>

\* The last element of an armed channel has been moved.
HwTransferComplete ==
    \E ch \in Channels(family) :
        /\ hwLeft > 0
        /\ hwLeft' = hwLeft - 1
        /\ ccr[ch].en = 1
        /\ isr[ch].tcif = 0
        /\ isr' = [isr EXCEPT ![ch].tcif = 1]
        /\ HwFrame
        /\ UNCHANGED <<cpar, cmar, cndtr, ccr, enClr>>

\* "When a channel transfer error occurs, the EN bit of the DMA_CCRx
\* register is cleared by hardware", and TEIFx is set.
HwTransferError ==
    \E ch \in Channels(family) :
        /\ hwLeft > 0
        /\ hwLeft' = hwLeft - 1
        /\ ccr[ch].en = 1
        /\ ccr' = [ccr EXCEPT ![ch].en = 0]
        /\ enClr' = [enClr EXCEPT ![ch] = FALSE]
        /\ isr' = [isr EXCEPT ![ch].teif = 1]
        /\ HwFrame
        /\ UNCHANGED <<cpar, cmar, cndtr>>

----------------------------------------------------------------------------
Next ==
    \/ CallCfgChannel
    \/ CallStop
    \/ CallTransferIsComplete
    \/ CallEnableInterrupt
    \/ CallClearInterrupt
    \/ Return
    \/ CfgWriteCpar
    \/ CfgWriteCmar
    \/ CfgWriteCndtr
    \/ CfgFence
    \/ SetCcrDisableRead
    \/ SetCcrDisableWrite
    \/ SetCcrPoll
    \/ SetCcrMem2memRead
    \/ SetCcrMem2memWrite
    \/ SetCcrConfigRead
    \/ SetCcrConfigWrite
    \/ StopRead
    \/ StopWrite
    \/ StopPoll
    \/ StopFence
    \/ TransferIsCompleteRead
    \/ EiReadEnabled
    \/ EiDisableRead
    \/ EiDisableWrite
    \/ EiDisablePoll
    \/ EiSetRead
    \/ EiSetWrite
    \/ EiEnableRead
    \/ EiEnableWrite
    \/ EiEnablePoll
    \/ ClearInterruptWrite
    \/ HwAckDisable
    \/ HwHalfTransfer
    \/ HwTransferComplete
    \/ HwTransferError

Spec == Init /\ [][Next]_vars

SpecCfg == InitCfg /\ [][Next]_vars

SpecRecover == InitRecover /\ [][Next]_vars

\* The thread that only binds inputs to channels.
NextMux ==
    \/ CallMux
    \/ MuxRead
    \/ MuxWrite
    \/ Return

SpecMux == InitMux /\ [][NextMux]_vars

\* Two threads that configure, stop and acknowledge channels, each preempted
\* at any register access; the hardware raises no status event.
NextPar ==
    \/ CallCfgChannel
    \/ CallStop
    \/ CallEnableInterrupt
    \/ CallClearInterrupt
    \/ Return
    \/ CfgWriteCpar
    \/ CfgWriteCmar
    \/ CfgWriteCndtr
    \/ CfgFence
    \/ SetCcrDisableRead
    \/ SetCcrDisableWrite
    \/ SetCcrPoll
    \/ SetCcrMem2memRead
    \/ SetCcrMem2memWrite
    \/ SetCcrConfigRead
    \/ SetCcrConfigWrite
    \/ StopRead
    \/ StopWrite
    \/ StopPoll
    \/ StopFence
    \/ EiReadEnabled
    \/ EiDisableRead
    \/ EiDisableWrite
    \/ EiDisablePoll
    \/ EiSetRead
    \/ EiSetWrite
    \/ EiEnableRead
    \/ EiEnableWrite
    \/ EiEnablePoll
    \/ ClearInterruptWrite
    \/ HwAckDisable
    \/ Switch

SpecPar == InitPar /\ [][NextPar]_vars

\* Two threads that select inputs, each preempted at any register access.
NextSelect ==
    \/ CallMux
    \/ MuxRead
    \/ MuxWrite
    \/ CallChannelSelect
    \/ ChannelSelectRead
    \/ ChannelSelectPanic
    \/ ChannelSelectWrite
    \/ Return
    \/ Switch

SpecSelect == InitSelect /\ [][NextSelect]_vars

\* The thread that only selects inputs with channel_select.
NextChannelSelect ==
    \/ CallChannelSelect
    \/ ChannelSelectRead
    \/ ChannelSelectPanic
    \/ ChannelSelectWrite
    \/ Return

SpecChannelSelect == InitChannelSelect /\ [][NextChannelSelect]_vars

\* The thread that calls the DmaPeriph functions of its peripheral.
NextPeriph ==
    \/ CallReadChan
    \/ CallWriteChan
    \/ CallReadSel
    \/ CallWriteSel
    \/ ChanReturn
    \/ ChanPanic
    \/ PeriphUnimplemented
    \/ ChannelSelectRead
    \/ ChannelSelectPanic
    \/ ChannelSelectWrite
    \/ Return

SpecPeriph == InitPeriph /\ [][NextPeriph]_vars

\* The thread that fills a buffer, arms a channel, stops it and reads the
\* buffer, with the accesses to the buffer placed by the compiler.
NextFence ==
    \/ CallCfgChannel
    \/ CallStop
    \/ Return
    \/ CfgWriteCpar
    \/ CfgWriteCmar
    \/ CfgWriteCndtr
    \/ CfgFence
    \/ SetCcrDisableRead
    \/ SetCcrDisableWrite
    \/ SetCcrPoll
    \/ SetCcrMem2memRead
    \/ SetCcrMem2memWrite
    \/ SetCcrConfigRead
    \/ SetCcrConfigWrite
    \/ StopRead
    \/ StopWrite
    \/ StopPoll
    \/ StopFence
    \/ HwAckDisable
    \/ HwTransferError
    \/ PopulateBuffer
    \/ StorePerformed
    \/ BufferRead

SpecFence == InitFence /\ [][NextFence]_vars

\* The thread that constructs the handle and then configures a channel.
NextNew ==
    \/ CallNew
    \/ NewEnable
    \/ NewResetSet
    \/ NewResetClear
    \/ NewSelf
    \/ CallCfgChannel
    \/ Return
    \/ CfgWriteCpar
    \/ CfgWriteCmar
    \/ CfgWriteCndtr
    \/ CfgFence
    \/ SetCcrDisableRead
    \/ SetCcrDisableWrite
    \/ SetCcrPoll
    \/ SetCcrMem2memRead
    \/ SetCcrMem2memWrite
    \/ SetCcrConfigRead
    \/ SetCcrConfigWrite
    \/ HwAckDisable

SpecNew == InitNew /\ [][NextNew]_vars

\* A step of the thread inside a call: the code between two register
\* accesses, a pass of a polling loop that ends it, or the return.
ThreadStep ==
    \/ Return
    \/ CfgWriteCpar
    \/ CfgWriteCmar
    \/ CfgWriteCndtr
    \/ CfgFence
    \/ SetCcrDisableRead
    \/ SetCcrDisableWrite
    \/ SetCcrPoll
    \/ SetCcrMem2memRead
    \/ SetCcrMem2memWrite
    \/ SetCcrConfigRead
    \/ SetCcrConfigWrite
    \/ StopRead
    \/ StopWrite
    \/ StopPoll
    \/ StopFence
    \/ TransferIsCompleteRead
    \/ EiReadEnabled
    \/ EiDisableRead
    \/ EiDisableWrite
    \/ EiDisablePoll
    \/ EiSetRead
    \/ EiSetWrite
    \/ EiEnableRead
    \/ EiEnableWrite
    \/ EiEnablePoll
    \/ ClearInterruptWrite

\* The thread inside a call keeps running (nothing preempts it for good),
\* and the controller acknowledges a cleared EN after finitely many cycles.
\* The driver need not call, and the hardware need not raise status events.
Fairness ==
    /\ WF_vars(ThreadStep)
    /\ WF_vars(HwAckDisable)

SpecLive == InitLive /\ [][Next]_vars /\ Fairness

\* The driver that finds the flags of a finished transfer.
SpecFinished == InitFinished /\ [][Next]_vars

----------------------------------------------------------------------------
(* Properties.                                                             *)

InCall(op) == pc # "idle" /\ call.op = op
AtRet(op)  == pc = "ret" /\ call.op = op

IsCcrWrite(e, ch) == e.k = "write" /\ e.reg = Reg(family, ch, "cr")
IsWrite(e) == e.k = "write"
Writes(tr) == SelectSeq(tr, IsWrite)

CircularRequested == call.args.cfg.circular = "Enabled"

\* The control word a call asked for, with the codes written out.
CarriesRequestedFields(v, a) ==
    /\ v.pl = (CASE a.cfg.priority = "Low" -> 0
                 [] a.cfg.priority = "Medium" -> 1
                 [] a.cfg.priority = "High" -> 2
                 [] a.cfg.priority = "VeryHigh" -> 3)
    /\ v.dir = (IF a.direction = "ReadFromPeriph" THEN 0 ELSE 1)
    /\ v.circ = (IF a.cfg.circular = "Enabled" THEN 1 ELSE 0)
    /\ v.pinc = (IF a.cfg.periph_incr = "Enabled" THEN 1 ELSE 0)
    /\ v.minc = (IF a.cfg.mem_incr = "Enabled" THEN 1 ELSE 0)
    /\ v.psize = (CASE a.periph_size = "S8" -> 0
                    [] a.periph_size = "S16" -> 1
                    [] a.periph_size = "S32" -> 2)
    /\ v.msize = (CASE a.mem_size = "S8" -> 0
                    [] a.mem_size = "S16" -> 1
                    [] a.mem_size = "S32" -> 2)

\* C1: one call of cfg_channel issues, in this order, the write of the
\* peripheral address, of the memory address, of the element count, the
\* release fence, the EN-clearing write, the poll that ends when EN reads 0,
\* the MEM2MEM-clearing write (only when circular mode is requested) and the
\* write of the configuration fields together with EN.  At every point of
\* the call the trace is a prefix of that sequence, and at the return it is
\* the whole of it.
C1_EffectOrder ==
    InCall("cfg_channel") =>
        LET n    == Len(trace)
            a    == call.args
            ch   == call.ch
            last == IF CircularRequested THEN 8 ELSE 7
        IN  /\ n <= last
            /\ (pc = "ret") => (n = last)
            /\ (n >= 1) => trace[1] = WriteEv(Reg(family, ch, "par"), a.periph_addr)
            /\ (n >= 2) => trace[2] = WriteEv(Reg(family, ch, "mar"), a.mem_addr)
            /\ (n >= 3) => trace[3] = WriteEv(Reg(family, ch, "ndtr"), a.num_data)
            /\ (n >= 4) => trace[4] = FenceEv("Release")
            /\ (n >= 5) => (IsCcrWrite(trace[5], ch) /\ trace[5].val.en = 0)
            /\ (n >= 6) => trace[6] = PollEv(Reg(family, ch, "cr"), 0)
            /\ (CircularRequested /\ n >= 7) =>
                   /\ IsCcrWrite(trace[7], ch)
                   /\ trace[7].val.mem2mem = 0
                   /\ trace[7].val.en = 0
            /\ (n >= last) =>
                   /\ IsCcrWrite(trace[last], ch)
                   /\ trace[last].val.en = 1
                   /\ CarriesRequestedFields(trace[last].val, a)

\* A circular cfg_channel on an armed channel has returned.
C1_Witness ==
    /\ AtRet("cfg_channel")
    /\ CircularRequested
    /\ entry.ccr[call.ch].en = 1
    /\ Len(trace) = 8

\* C2: after cfg_channel returns from a state in which the channel was
\* disabled and had no pending transfer-error flag, the control register
\* holds PL, DIR, CIRC, PINC, MINC, PSIZE and MSIZE as requested
\* (Low 0 .. VeryHigh 3; peripheral-to-memory 0, memory-to-peripheral 1;
\* 8-bit 0, 16-bit 1, 32-bit 2).
C2_ControlFields ==
    (/\ AtRet("cfg_channel")
     /\ entry.ccr[call.ch].en = 0
     /\ entry.isr[call.ch].teif = 0)
    => CarriesRequestedFields(ccr[call.ch], call.args)

\* cfg_channel has returned on a disabled channel with very high priority,
\* memory-to-peripheral, 8-bit peripheral and 32-bit memory elements.
C2_Witness ==
    /\ AtRet("cfg_channel")
    /\ entry.ccr[call.ch].en = 0
    /\ entry.isr[call.ch].teif = 0
    /\ call.args.cfg.priority = "VeryHigh"
    /\ call.args.direction = "ReadFromMem"
    /\ call.args.periph_size = "S8"
    /\ call.args.mem_size = "S32"
    /\ call.args.cfg.periph_incr = "Enabled"
    /\ ccr[call.ch].pl = 3 /\ ccr[call.ch].msize = 2

\* C3: in every call of cfg_channel only one register write carries EN = 1:
\* it is the last event of the call, it carries the requested fields and
\* TCIE, and while the call is under way EN reads 1 only before the poll has
\* ended, when no control field has been written yet.
C3_SingleArmingWrite ==
    InCall("cfg_channel") =>
        LET ch == call.ch
        IN  /\ \A i \in 1..Len(trace) :
                  (IsCcrWrite(trace[i], ch) /\ trace[i].val.en = 1) =>
                      /\ i = Len(trace)
                      /\ pc = "ret"
                      /\ trace[i].val.tcie = 1
                      /\ CarriesRequestedFields(trace[i].val, call.args)
            /\ (pc = "ret") =>
                   (IsCcrWrite(trace[Len(trace)], ch)
                       /\ trace[Len(trace)].val.en = 1)
            /\ (pc # "ret" /\ ccr[ch].en = 1) =>
                   /\ \A i \in 1..Len(trace) : trace[i].k # "poll"
                   /\ ccr[ch] = entry.ccr[ch]

\* cfg_channel has returned after a MEM2MEM-clearing write and left the
\* channel armed.
C3_Witness ==
    /\ AtRet("cfg_channel")
    /\ CircularRequested
    /\ ccr[call.ch].en = 1
    /\ ccr[call.ch].tcie = 1

\* C4: when cfg_channel is entered with EN set, the first write to the
\* control register only clears EN, every later write to it comes after a
\* poll that read EN = 0, and EN reads 0 whenever such a later write is
\* prepared or issued.
C4_DisableBeforeReconfigure ==
    (InCall("cfg_channel") /\ entry.ccr[call.ch].en = 1) =>
        LET ch == call.ch
            crs == {i \in 1..Len(trace) : IsCcrWrite(trace[i], ch)}
        IN  /\ \A i \in crs :
                  \/ /\ \A j \in crs : i <= j
                     /\ trace[i].val = [entry.ccr[ch] EXCEPT !.en = 0]
                  \/ \E j \in crs, k \in 1..Len(trace) :
                       /\ j < k /\ k < i
                       /\ trace[j].val.en = 0
                       /\ trace[k] = PollEv(Reg(family, ch, "cr"), 0)
            /\ pc \in {"ccr_m2m_rd", "ccr_m2m_wr", "ccr_cfg_rd", "ccr_cfg_wr"}
                  => ccr[ch].en = 0

\* cfg_channel has returned after being entered on an armed channel whose
\* EN still read 1 when the disabling write was issued.
C4_Witness ==
    /\ AtRet("cfg_channel")
    /\ entry.ccr[call.ch].en = 1
    /\ entry.isr = isr
    /\ \E k \in 1..Len(trace) : trace[k] = PollEv(Reg(family, call.ch, "cr"), 0)

\* C5: no channel ever has EN, CIRC and MEM2MEM all set; and in a circular
\* cfg_channel the write that sets EN comes after a write, issued with the
\* channel disabled, that clears MEM2MEM.
C5_CircularExcludesMem2mem ==
    /\ \A ch \in Channels(family) :
          ~(ccr[ch].en = 1 /\ ccr[ch].circ = 1 /\ ccr[ch].mem2mem = 1)
    /\ (InCall("cfg_channel") /\ CircularRequested) =>
          \A i \in 1..Len(trace) :
              (IsCcrWrite(trace[i], call.ch) /\ trace[i].val.en = 1) =>
                  /\ trace[i].val.mem2mem = 0
                  /\ \E j \in 1..(i - 1) :
                        /\ IsCcrWrite(trace[j], call.ch)
                        /\ trace[j].val.mem2mem = 0
                        /\ trace[j].val.en = 0
                        /\ \E k \in 1..(j - 1) :
                              trace[k] = PollEv(Reg(family, call.ch, "cr"), 0)

\* A circular cfg_channel has armed a channel that had MEM2MEM set.
C5_Witness ==
    /\ AtRet("cfg_channel")
    /\ CircularRequested
    /\ entry.ccr[call.ch].mem2mem = 1
    /\ ccr[call.ch].en = 1
    /\ ccr[call.ch].circ = 1
    /\ ccr[call.ch].mem2mem = 0

\* The scenario of C6: channel 3, peripheral address 0x4001_0000, count 16,
\* peripheral-to-memory, 16-bit sizes, medium priority, memory increment
\* only, not circular.
IsScenarioCall ==
    /\ AtRet("cfg_channel")
    /\ call.ch = 3
    /\ call.args = [periph_addr |-> 1073807360, mem_addr |-> 536870912,
                    num_data |-> 16, direction |-> "ReadFromPeriph",
                    periph_size |-> "S16", mem_size |-> "S16",
                    cfg |-> [priority |-> "Medium", circular |-> "Disabled",
                             periph_incr |-> "Disabled",
                             mem_incr |-> "Enabled"]]

C7_StopReturnsDisabled ==
    AtRet("stop") => ccr[call.ch].en = 0

\* C8: a stop(C) that follows a stop(C) changes nothing in the register
\* file: none of its steps alters a register, so the file after
\* stop(C); stop(C) is the file after the first stop(C).
C8_StopIdempotent ==
    [][(/\ pc' # pc
        /\ call.op = "stop"
        /\ prev.op = "stop"
        /\ prev.ch = call.ch) => RegFile' = RegFile]_vars

\* The second of two stop(C) has returned on a channel that had been
\* configured and armed.
C8_Witness ==
    /\ AtRet("stop")
    /\ prev.op = "stop"
    /\ prev.ch = call.ch
    /\ ccr[call.ch].tcie = 1
    /\ cndtr[call.ch] = 16
    /\ Len(trace) >= 2

\* C9: no step of stop changes a status flag, and transfer_is_complete(C)
\* returns the transfer-complete flag of C as it stands and changes no
\* register; so called right after stop(C) it returns the value the flag
\* had before stop.
C9_StopKeepsTcif ==
    [][/\ (pc' # pc /\ call.op = "stop") => isr' = isr
       /\ (pc = "tic_rd" /\ pc' = "ret") =>
              /\ ret' = (isr[call.ch].tcif = 1)
              /\ RegFile' = RegFile]_vars

\* transfer_is_complete(C) has returned TRUE right after stop(C).
C9_Witness ==
    /\ AtRet("transfer_is_complete")
    /\ prev.op = "stop"
    /\ prev.ch = call.ch
    /\ ret = TRUE
    /\ isr[call.ch].htif = 0

\* C10: enable_interrupt on a channel whose EN it reads as set makes exactly
\* three writes, all to the channel's control register: one clearing EN,
\* followed by the poll that ends when EN reads 0, one setting the requested
\* interrupt-enable bit with EN still 0, one setting EN; the call returns
\* only after EN has been read as 1.
C10_OneCycle ==
    (AtRet("enable_interrupt") /\ originally_enabled) =>
        LET ch == call.ch
        IN  /\ Len(trace) = 5
            /\ IsCcrWrite(trace[1], ch) /\ trace[1].val.en = 0
            /\ trace[2] = PollEv(Reg(family, ch, "cr"), 0)
            /\ IsCcrWrite(trace[3], ch) /\ trace[3].val.en = 0
            /\ (CASE call.interrupt = "TransferError" -> trace[3].val.teie
                  [] call.interrupt = "HalfTransfer" -> trace[3].val.htie
                  [] call.interrupt = "TransferComplete" -> trace[3].val.tcie)
                 = 1
            /\ IsCcrWrite(trace[4], ch) /\ trace[4].val.en = 1
            /\ trace[5] = PollEv(Reg(family, ch, "cr"), 1)

\* enable_interrupt(C, HalfTransfer) has returned on an armed channel.
C10_Witness ==
    /\ AtRet("enable_interrupt")
    /\ originally_enabled
    /\ call.interrupt = "HalfTransfer"
    /\ ccr[call.ch].htie = 1
    /\ ccr[call.ch].en = 1

\* The fields of a control register other than EN.
ConfigFields(r) == [r EXCEPT !.en = 0]

\* C11: every write to a channel's control register whose value differs
\* from the register in priority, direction, circular, increment, size,
\* memory-to-memory or interrupt-enable bits is issued while EN of that
\* channel reads 0; and no step changes those bits of a channel whose EN
\* reads 1.
C11_FieldsWrittenDisabled ==
    [][/\ (/\ Len(trace') = Len(trace) + 1
           /\ IsCcrWrite(trace'[Len(trace')], call.ch)
           /\ ConfigFields(trace'[Len(trace')].val) # ConfigFields(ccr[call.ch]))
          => ccr[call.ch].en = 0
       /\ \A ch \in Channels(family) :
             ConfigFields(ccr'[ch]) # ConfigFields(ccr[ch]) => ccr[ch].en = 0]_vars

\* enable_interrupt(C, HalfTransfer), entered on an armed channel, has just
\* written HTIE.
C11_Witness ==
    /\ InCall("enable_interrupt")
    /\ pc = "ei_en_rd"
    /\ call.interrupt = "HalfTransfer"
    /\ entry.ccr[call.ch].en = 1
    /\ entry.ccr[call.ch].htie = 0
    /\ ccr[call.ch].htie = 1

AtRecoveryRet ==
    /\ AtRet("cfg_channel")
    /\ prev.op = "clear_interrupt"
    /\ prev.ch = call.ch
    /\ prev.te
    /\ prev.after_stop

\* C13: with a hardware in which a transfer error clears EN and sets TEIF
\* and EN cannot be set while TEIF is set: clear_interrupt(C, TransferError)
\* entered with TEIF of C set returns with it clear; after
\* stop(C); clear_interrupt(C, TransferError); cfg_channel(C, ..) channel C
\* is armed (unless a new transfer error has been raised since); and a
\* cfg_channel(C, ..) entered with TEIF of C set returns with EN = 0.
C13_RecoverAfterError ==
    /\ (/\ AtRet("clear_interrupt")
        /\ call.interrupt = "TransferError"
        /\ entry.isr[call.ch].teif = 1) => isr[call.ch].teif = 0
    /\ (AtRecoveryRet /\ isr[call.ch].teif = 0) => ccr[call.ch].en = 1
    /\ (AtRet("cfg_channel") /\ entry.isr[call.ch].teif = 1) =>
           /\ ccr[call.ch].en = 0
           /\ isr[call.ch].teif = 1

\* The recovery sequence has armed a channel on which a transfer error was
\* raised while the driver ran: a status event has happened and no flag of
\* the channel is left set.
C13_Witness ==
    /\ AtRecoveryRet
    /\ hwLeft < MaxHwEvents
    /\ isr[call.ch] = IsrReset
    /\ cmar[call.ch] = 536870912
    /\ isr[call.ch].teif = 0
    /\ ccr[call.ch].en = 1

\* C14: a transfer-error flag that is set goes back to 0 only in the write
\* of clear_interrupt for that channel and the kind TransferError: no step of
\* cfg_channel, stop, enable_interrupt or transfer_is_complete on any
\* channel, and no clear_interrupt for another channel or another kind,
\* clears it; and while the flag is set the channel is not armed.
C14_ErrorFlagSticky ==
    [][\A ch \in Channels(family) :
          /\ (isr[ch].teif = 1 /\ isr'[ch].teif = 0) =>
                 /\ pc = "ci_wr"
                 /\ call.op = "clear_interrupt"
                 /\ call.ch = ch
                 /\ call.interrupt = "TransferError"
          /\ isr'[ch].teif = 1 => ccr'[ch].en = 0]_vars

\* clear_interrupt(C, TransferError) has cleared the flag of C and left the
\* flag of another channel set, after an enable_interrupt on C that ran with
\* the flag of C set.
C14_Witness ==
    /\ AtRet("clear_interrupt")
    /\ call.interrupt = "TransferError"
    /\ prev.op = "enable_interrupt"
    /\ entry.isr[call.ch].teif = 1
    /\ isr[call.ch].teif = 0
    /\ \E d \in Channels(family) \ {call.ch} : isr[d].teif = 1

\* C15: transfer_is_complete(C) returns the value the transfer-complete
\* flag of channel C has when the status register is read, whatever the
\* other flags of C and the flags of the other channels are, and none of
\* its steps changes a register; so repeated calls leave the register file
\* as it is and, when the hardware has not changed the flag since the call
\* was entered, return the value the flag had at entry.
C15_PureStatusRead ==
    /\ [][(call.op = "transfer_is_complete" /\ pc' # pc) =>
              /\ RegFile' = RegFile
              /\ selvars' = selvars
              /\ (pc = "tic_rd") =>
                     ret' = (IF isr[call.ch].tcif = 1 THEN TRUE ELSE FALSE)]_vars
    /\ [](AtRet("transfer_is_complete") =>
              /\ Len(trace) = 0
              /\ (isr[call.ch].tcif = entry.isr[call.ch].tcif) =>
                     (ret <=> entry.isr[call.ch].tcif = 1))

\* The second of two transfer_is_complete(C) has returned FALSE while the
\* half-transfer flag of C is set.
C15_Witness ==
    /\ AtRet("transfer_is_complete")
    /\ prev.op = "transfer_is_complete"
    /\ prev.ch = call.ch
    /\ ret = FALSE
    /\ isr[call.ch].htif = 1
    /\ isr[call.ch].tcif = 0

\* The status flags with the flag (ch, kind) cleared.
FlagCleared(flags, ch, kind) ==
    CASE kind = "TransferError"    -> [flags EXCEPT ![ch].teif = 0]
      [] kind = "HalfTransfer"     -> [flags EXCEPT ![ch].htif = 0]
      [] kind = "TransferComplete" -> [flags EXCEPT ![ch].tcif = 0]

\* The clear-flag bit of (ch, kind) under its name in the target's PAC.
ClearBitOf(ch, kind) ==
    [n |-> ch,
     name |-> IF family = "g4"
              THEN (CASE kind = "TransferError" -> "teif"
                      [] kind = "HalfTransfer" -> "htif"
                      [] kind = "TransferComplete" -> "tcif")
              ELSE (CASE kind = "TransferError" -> "cteif"
                      [] kind = "HalfTransfer" -> "chtif"
                      [] kind = "TransferComplete" -> "ctcif")]

\* C16: clear_interrupt(C, K) makes exactly one register write: to the
\* clear-flag register, with the bit of (C, K) set and every other bit 0.
\* That write clears the flag (C, K), leaves every other flag of every
\* channel as it was, and writes no control, address or count register.
C16_ClearOneFlag ==
    /\ [][(call.op = "clear_interrupt" /\ pc' # pc /\ pc # "ret") =>
              /\ pc = "ci_wr"
              /\ isr' = FlagCleared(isr, call.ch, call.interrupt)
              /\ <<cpar, cmar, cndtr, ccr, enClr>>' = <<cpar, cmar, cndtr, ccr, enClr>>
              /\ selvars' = selvars]_vars
    /\ [](AtRet("clear_interrupt") =>
              trace = << WriteEv([name |-> "ifcr", n |-> 0],
                                 {ClearBitOf(call.ch, call.interrupt)}) >>)

\* clear_interrupt(C, HalfTransfer) has cleared the half-transfer flag of C
\* while the transfer-error flag of another channel stays set.
C16_Witness ==
    /\ AtRet("clear_interrupt")
    /\ call.interrupt = "HalfTransfer"
    /\ entry.isr[call.ch].htif = 1
    /\ isr[call.ch].htif = 0
    /\ \E d \in Channels(family) \ {call.ch} :
          entry.isr[d].teif = 1 /\ isr[d].teif = 1

\* C17: when mux(C, I) returns, the request-identifier field of the
\* multiplexer register of C holds the code of I (Adc1 = 5, each following
\* input one more, Adc5 = 39); the other bits of that register and the
\* multiplexer registers of all other channels are as at entry; the call
\* makes one register write.  So after a later mux(C, J) the field holds the
\* code of J and no longer that of I.
C17_MuxBindsInput ==
    AtRet("mux") =>
        /\ muxcr[call.ch].dmareq_id = DmaInputCodes[call.input]
        /\ (call.input = "Adc1") => muxcr[call.ch].dmareq_id = 5
        /\ (call.input = "Spi1Rx") => muxcr[call.ch].dmareq_id = 10
        /\ (call.input = "Adc5") => muxcr[call.ch].dmareq_id = 39
        /\ muxcr[call.ch].dmareq_id \in 5..39
        /\ muxcr[call.ch].rest = entry.muxcr[call.ch].rest
        /\ \A c \in AllChannels \ {call.ch} : muxcr[c] = entry.muxcr[c]
        /\ Len(trace) = 1
        /\ [entry EXCEPT !.muxcr = muxcr] = RegFile

\* mux(C, Adc5) has returned after a mux(C, ..) that had bound another input
\* to C.
C17_Witness ==
    /\ AtRet("mux")
    /\ call.input = "Adc5"
    /\ prev.op = "mux"
    /\ prev.ch = call.ch
    /\ entry.muxcr[call.ch].dmareq_id = 5
    /\ entry.muxcr[call.ch].rest = 1
    /\ muxcr[call.ch].dmareq_id = 39

\* C18 as claimed: at every point of a cfg_channel call at which EN of the
\* channel reads 1, the peripheral address, the memory address, the element
\* count and the control fields of the channel all come from one
\* cfg_channel call: either all are still as the call found them, or all
\* are what this call was asked to write.
C18_NoTornConfiguration ==
    (InCall("cfg_channel") /\ ccr[call.ch].en = 1) =>
        LET ch == call.ch
        IN  \/ /\ cpar[ch] = entry.cpar[ch]
               /\ cmar[ch] = entry.cmar[ch]
               /\ cndtr[ch] = entry.cndtr[ch]
               /\ [ccr[ch] EXCEPT !.en = 0] = [entry.ccr[ch] EXCEPT !.en = 0]
            \/ /\ cpar[ch] = call.args.periph_addr
               /\ cmar[ch] = call.args.mem_addr
               /\ cndtr[ch] = call.args.num_data
               /\ CarriesRequestedFields(ccr[ch], call.args)

\* Both threads have come to the return of a call, on different channels.
BothAtRet ==
    /\ pc = "ret"
    /\ saved.pc = "ret"
    /\ call.ch # saved.call.ch

\* C20 as claimed: when the input-selection calls of two threads for two
\* different channels have both returned, however one preempted the other,
\* both channels hold the selector values that were requested: the CnS
\* fields of DMA_CSELR after channel_select, the request identifiers of the
\* multiplexer registers after mux.
C20_BothSelected ==
    BothAtRet =>
        /\ (call.op = "channel_select") =>
               /\ cselr[call.ch] = Dma1ChannelSelects[call.input]
               /\ cselr[saved.call.ch] = Dma1ChannelSelects[saved.call.input]
        /\ (call.op = "mux") =>
               /\ muxcr[call.ch].dmareq_id = DmaInputCodes[call.input]
               /\ muxcr[saved.call.ch].dmareq_id = DmaInputCodes[saved.call.input]

\* The registers of one channel in a register file.
View(rf, ch) ==
    [cpar |-> rf.cpar[ch], cmar |-> rf.cmar[ch], cndtr |-> rf.cndtr[ch],
     ccr |-> rf.ccr[ch], isr |-> rf.isr[ch]]

\* The registers of its channel after call c has run alone, from the view
\* e, to its return and the hardware has acknowledged every write.
AloneResult(c, e) ==
    CASE c.op = "stop" -> [e EXCEPT !.ccr.en = 0]
      [] c.op = "clear_interrupt" ->
            (CASE c.interrupt = "TransferError" -> [e EXCEPT !.isr.teif = 0]
               [] c.interrupt = "HalfTransfer" -> [e EXCEPT !.isr.htif = 0]
               [] c.interrupt = "TransferComplete" -> [e EXCEPT !.isr.tcif = 0])
      [] c.op = "enable_interrupt" ->
            (CASE c.interrupt = "TransferError" -> [e EXCEPT !.ccr.teie = 1]
               [] c.interrupt = "HalfTransfer" -> [e EXCEPT !.ccr.htie = 1]
               [] c.interrupt = "TransferComplete" -> [e EXCEPT !.ccr.tcie = 1])
      [] c.op = "cfg_channel" ->
            [cpar |-> c.args.periph_addr,
             cmar |-> c.args.mem_addr,
             cndtr |-> c.args.num_data,
             isr |-> e.isr,
             ccr |-> [en |-> IF e.isr.teif = 0 THEN 1 ELSE 0,
                      tcie |-> 1, htie |-> e.ccr.htie, teie |-> e.ccr.teie,
                      dir |-> IF c.args.direction = "ReadFromMem" THEN 1 ELSE 0,
                      circ |-> IF c.args.cfg.circular = "Enabled" THEN 1 ELSE 0,
                      pinc |-> IF c.args.cfg.periph_incr = "Enabled" THEN 1 ELSE 0,
                      minc |-> IF c.args.cfg.mem_incr = "Enabled" THEN 1 ELSE 0,
                      psize |-> (CASE c.args.periph_size = "S8" -> 0
                                   [] c.args.periph_size = "S16" -> 1
                                   [] c.args.periph_size = "S32" -> 2),
                      msize |-> (CASE c.args.mem_size = "S8" -> 0
                                   [] c.args.mem_size = "S16" -> 1
                                   [] c.args.mem_size = "S32" -> 2),
                      pl |-> (CASE c.args.cfg.priority = "Low" -> 0
                                [] c.args.cfg.priority = "Medium" -> 1
                                [] c.args.cfg.priority = "High" -> 2
                                [] c.args.cfg.priority = "VeryHigh" -> 3),
                      mem2mem |-> IF c.args.cfg.circular = "Enabled"
                                  THEN 0 ELSE e.ccr.mem2mem]]

\* The hardware has acknowledged every cleared EN.
Quiescent == \A c \in Channels(family) : ~enClr[c]

\* C19: a step of a call on one channel changes no register of another
\* channel; and when one of cfg_channel, stop, enable_interrupt,
\* clear_interrupt on channel A and one on channel B have both returned,
\* however their register accesses were interleaved, each channel holds what
\* its call leaves when it runs alone and every other channel is as it was:
\* the register file is the one of running the two calls one after the
\* other.
C19_DisjointChannels ==
    /\ [][(pc' # pc /\ call.op # "none" /\ call' = call) =>
              \A c \in Channels(family) \ {call.ch} :
                  View(RegFile', c) = View(RegFile, c)]_vars
    /\ []((BothAtRet /\ Quiescent) =>
              /\ View(RegFile, call.ch) =
                     AloneResult(call, View(entry, call.ch))
              /\ View(RegFile, saved.call.ch) =
                     AloneResult(saved.call, View(saved.entry, saved.call.ch))
              /\ \A c \in Channels(family) \ {call.ch, saved.call.ch} :
                     View(RegFile, c) = View(entry, c))

\* A cfg_channel on one channel and an enable_interrupt on the other, armed,
\* channel have both returned; the enable_interrupt was entered after the
\* cfg_channel had written its count and before it had written the control
\* register.
C19_Witness ==
    /\ BothAtRet
    /\ Quiescent
    /\ call.op = "cfg_channel"
    /\ saved.call.op = "enable_interrupt"
    /\ entry.cndtr[call.ch] = 8
    /\ saved.entry.cndtr[call.ch] = 16
    /\ saved.entry.ccr[call.ch] = entry.ccr[call.ch]
    /\ saved.originally_enabled
    /\ ccr[call.ch].en = 1
    /\ ccr[saved.call.ch].en = 1

\* C21: when the hardware acknowledges a cleared EN after finitely many
\* steps, every call of stop and every call of cfg_channel comes to its
\* return, whatever the registers hold when it is entered.
C21_CallsReturn ==
    /\ InCall("stop") ~> AtRet("stop")
    /\ InCall("cfg_channel") ~> AtRet("cfg_channel")

\* stop has returned on a channel whose EN still read 1 after the clearing
\* write: the polling loop has run and has been left.
C21_Witness ==
    /\ AtRet("stop")
    /\ entry.ccr[call.ch].en = 1
    /\ \E k \in 1..Len(trace) : trace[k] = PollEv(Reg(family, call.ch, "cr"), 0)
    /\ ccr[call.ch].en = 0

\* C22 as claimed: every call of enable_interrupt comes to its return, also
\* a call on an armed channel that a transfer error hits before the call
\* sets EN again.
C22_EnableInterruptReturns ==
    InCall("enable_interrupt") ~> AtRet("enable_interrupt")

\* The 17 inputs the claim C23 lists.
MappedInputs ==
    {"Adc1", "Adc2", "Spi1Rx", "Spi1Tx", "Spi2Rx", "Spi2Tx", "I2c1Rx",
     "I2c1Tx", "I2c2Rx", "I2c2Tx", "I2c3Rx", "Usart1Rx", "Usart1Tx",
     "Usart2Rx", "Usart2Tx", "Usart3Rx", "Usart3Tx"}

\* C23: dma1_channel and dma1_channel_select have an arm for the same 17
\* inputs and run into unimplemented!() for every other input; so
\* channel_select with one of the 17 goes on to its register write and
\* returns, and with any other input it aborts with no register written: the
\* register file is as the call found it.
C23_SameInputsOrAbort ==
    /\ DOMAIN Dma1Channels = MappedInputs
    /\ DOMAIN Dma1ChannelSelects = MappedInputs
    /\ Cardinality(MappedInputs) = 17
    /\ InCall("channel_select") =>
          /\ (call.input \in MappedInputs) => pc \in {"cs_val", "cs_wr", "ret"}
          /\ (call.input \notin MappedInputs) =>
                 /\ pc \in {"cs_val", "panic"}
                 /\ trace = << >>
                 /\ RegFile = entry

\* channel_select(Spi3Rx), an input without an arm, has aborted after an
\* earlier channel_select had changed DMA_CSELR.
C23_Witness ==
    /\ pc = "panic"
    /\ call.op = "channel_select"
    /\ call.input = "Spi3Rx"
    /\ prev.op = "channel_select"
    /\ cselr # CselrReset
    /\ cselr # EarlierCselr

\* C24: in every call of cfg_channel the release fence precedes every write
\* to the control register of the channel, the write that sets EN among
\* them; so a store that fills the buffer before the call in program order
\* has been performed when a control-register write is issued.
C24_FenceBeforeControlWrites ==
    InCall("cfg_channel") =>
        \A i \in 1..Len(trace) :
            IsCcrWrite(trace[i], call.ch) =>
                /\ \E j \in 1..(i - 1) : trace[j] = FenceEv("Release")
                /\ buf # "pending"

\* cfg_channel has armed a channel after a store to the buffer that the
\* compiler had sunk into the call.
C24_Witness ==
    /\ AtRet("cfg_channel")
    /\ buf = "sunk"
    /\ entry.cndtr[call.ch] # cndtr[call.ch]
    /\ ccr[call.ch].en = 1

\* C25 as claimed: in every call of stop, on every channel, the full fence
\* comes after the EN-clearing write and after a read of EN that returned 0,
\* and stop does not return without it; so a read of the buffer that follows
\* stop in program order is performed with EN of the channel reading 0.
C25_FenceAfterAcknowledgement ==
    InCall("stop") =>
        /\ \A i \in 1..Len(trace) :
               trace[i] = FenceEv("SeqCst") =>
                   /\ \E j \in 1..(i - 1) :
                         IsCcrWrite(trace[j], call.ch) /\ trace[j].val.en = 0
                   /\ \E k \in 1..(i - 1) :
                         trace[k] = PollEv(Reg(family, call.ch, "cr"), 0)
        /\ (pc = "ret") => \E i \in 1..Len(trace) : trace[i] = FenceEv("SeqCst")
        /\ (buf = "read") => ccr[call.ch].en = 0

\* The channels that exist under both register topologies.
SharedChannels == Channels("f3") \cap Channels("g4")

\* chN.par to cparN, chN.mar to cmarN, chN.ndtr to cndtrN, chN.cr to ccrN.
FlatOf(reg) ==
    CASE reg.name = "ch.par"  -> [reg EXCEPT !.name = "cpar"]
      [] reg.name = "ch.mar"  -> [reg EXCEPT !.name = "cmar"]
      [] reg.name = "ch.ndtr" -> [reg EXCEPT !.name = "cndtr"]
      [] reg.name = "ch.cr"   -> [reg EXCEPT !.name = "ccr"]
      [] OTHER -> reg

\* A trace with its register names mapped to the flat ones.
Mapped(tr) ==
    [i \in 1..Len(tr) |->
        IF tr[i].k = "fence" THEN tr[i]
        ELSE [tr[i] EXCEPT !.reg = FlatOf(tr[i].reg)]]

\* The accesses of a call on channel n, in flat names, as a function of the
\* call, of the control register at entry and of what enable_interrupt read.
ExpectedAccesses(c, r0, oe) ==
    LET n   == c.ch
        r   == [r0 EXCEPT !.en = 0]
        W(name, v) == [k |-> "write", reg |-> [name |-> name, n |-> n], val |-> v]
        P(en) == [k |-> "poll", reg |-> [name |-> "ccr", n |-> n], en |-> en]
        F(ord) == [k |-> "fence", ord |-> ord]
    IN  CASE c.op = "cfg_channel" ->
               LET a  == c.args
                   r1 == IF a.cfg.circular = "Enabled"
                         THEN [r EXCEPT !.mem2mem = 0] ELSE r
                   v  == SetCcrValue(r1, a.cfg.priority, a.direction,
                                     a.cfg.circular, a.cfg.periph_incr,
                                     a.cfg.mem_incr, a.periph_size, a.mem_size)
               IN  << W("cpar", a.periph_addr), W("cmar", a.mem_addr),
                      W("cndtr", a.num_data), F("Release"), W("ccr", r), P(0) >>
                   \o (IF a.cfg.circular = "Enabled"
                       THEN << W("ccr", r1) >> ELSE << >>)
                   \o << W("ccr", v) >>
          [] c.op = "stop" -> << W("ccr", r), P(0), F("SeqCst") >>
          [] c.op = "enable_interrupt" ->
               LET v == InterruptEnableValue(r, c.interrupt)
               IN  IF oe
                   THEN << W("ccr", r), P(0), W("ccr", v),
                           W("ccr", [v EXCEPT !.en = 1]), P(1) >>
                   ELSE << W("ccr", v) >>

\* C26: for every channel that exists under both topologies and each of
\* cfg_channel, stop and enable_interrupt, the register accesses of a call,
\* with the block names chN.par, chN.mar, chN.ndtr, chN.cr mapped to cparN,
\* cmarN, cndtrN, ccrN, are the same sequence under the block topology (f3)
\* and under the flat one (g4): at every point of the call a prefix of one
\* sequence that depends on the build and on the channel number only through
\* the index N of the registers, and the whole of it at the return.  Every
\* access is made under the names of the build's topology.
C26_TopologyEquivalence ==
    (/\ pc \notin {"idle", "ei_rd"}
     /\ call.op \in {"cfg_channel", "stop", "enable_interrupt"}
     /\ call.ch \in SharedChannels) =>
        LET exp == ExpectedAccesses(call, entry.ccr[call.ch], originally_enabled)
        IN  /\ Len(trace) <= Len(exp)
            /\ Mapped(trace) = SubSeq(exp, 1, Len(trace))
            /\ (pc = "ret") => Len(trace) = Len(exp)
            /\ \A i \in 1..Len(trace) :
                   trace[i].k # "fence" =>
                       /\ trace[i].reg.n = call.ch
                       /\ IF family \in {"f3", "g0"}
                          THEN trace[i].reg.name \in
                                   {"ch.par", "ch.mar", "ch.ndtr", "ch.cr"}
                          ELSE trace[i].reg.name \in
                                   {"cpar", "cmar", "cndtr", "ccr"}

\* A circular cfg_channel has returned on channel 7 of an f3 build, armed at
\* entry: its accesses went to ch7.par, ch7.mar, ch7.ndtr and ch7.cr.
C26_Witness ==
    /\ AtRet("cfg_channel")
    /\ family = "f3"
    /\ call.ch = 7
    /\ CircularRequested
    /\ entry.ccr[7].en = 1
    /\ trace[3].reg = [name |-> "ch.ndtr", n |-> 7]
    /\ trace[8].reg = [name |-> "ch.cr", n |-> 7]

\* C27: every cfg_channel call, whatever its arguments, writes TCIE = 1 in
\* its last control-register write; when it returns from a state in which
\* the channel was disabled, TCIE of the channel is 1, with no
\* enable_interrupt call made.
C27_SetsTransferCompleteEnable ==
    AtRet("cfg_channel") =>
        /\ IsCcrWrite(trace[Len(trace)], call.ch)
        /\ trace[Len(trace)].val.tcie = 1
        /\ (entry.ccr[call.ch].en = 0) => ccr[call.ch].tcie = 1

\* The first call of the driver, a cfg_channel with low priority and
\* peripheral increment on a disabled channel whose TCIE was 0, has returned
\* with TCIE = 1.
C27_Witness ==
    /\ AtRet("cfg_channel")
    /\ prev.op = "none"
    /\ call.args.cfg.priority = "Low"
    /\ call.args.cfg.periph_incr = "Enabled"
    /\ entry.ccr[call.ch].en = 0
    /\ entry.ccr[call.ch].tcie = 0
    /\ ccr[call.ch].tcie = 1

\* The RCC writes of Dma::new on a build: the clock-enable bit, then (f3
\* aside) the reset bit set and cleared.
NewWrites(f) ==
    LET en  == IF f \in {"f3", "g0"} THEN "ahbenr" ELSE "ahb1enr"
        rst == IF f \in {"f3", "g0"} THEN "ahbrstr" ELSE "ahb1rstr"
        p   == IF f = "g0" THEN "dma" ELSE "dma1"
        W(r, b, v) == [k |-> "write", reg |-> [name |-> r, n |-> 0],
                       val |-> [bit |-> b, v |-> v]]
    IN  << W(en, p \o "en", 1) >>
        \o (IF f = "f3" THEN << >>
            ELSE << W(rst, p \o "rst", 1), W(rst, p \o "rst", 0) >>)

\* C28 as claimed: Dma::new, the only constructor, sets the clock-enable
\* bit and then (f3 aside) sets and clears the reset bit, in that order; when
\* it returns the clock-enable bit of the handle's controller is 1 and its
\* reset bit is 0; and whenever cfg_channel runs on the handle there is a
\* handle, the clock of its controller is enabled and its reset released.
C28_ClockedBeforeArming ==
    /\ InCall("new") =>
          /\ Len(trace) <= Len(NewWrites(family))
          /\ trace = SubSeq(NewWrites(family), 1, Len(trace))
          /\ (pc = "ret") =>
                 /\ trace = NewWrites(family)
                 /\ rcc.handle = call.regs
                 /\ rcc.en[rcc.handle] = 1
                 /\ rcc.rst[rcc.handle] = 0
    /\ InCall("cfg_channel") =>
          /\ rcc.handle \in Controllers
          /\ rcc.en[rcc.handle] = 1
          /\ rcc.rst[rcc.handle] = 0

\* The inputs whose table entries name channel c with the selector value
\* the field CcS holds.
BoundInputs(c) ==
    {i \in DOMAIN Dma1Channels :
        Dma1Channels[i] = c /\ Dma1ChannelSelects[i] = cselr[c]}

\* C29: on l4, when channel_select(I) returns for an input I with a table
\* entry, the selector field of channel dma1_channel(I) in DMA_CSELR holds
\* dma1_channel_select(I), the fields of all other channels are as at entry,
\* and the call has made that one register write and changed nothing else;
\* the input bound to the channel is then I alone, whatever was bound
\* before, and at no time do the table entries of two inputs match the
\* field of one channel.
C29_SelectBindsInput ==
    /\ \A c \in 1..7 : Cardinality(BoundInputs(c)) <= 1
    /\ AtRet("channel_select") =>
          /\ family = "l4"
          /\ call.ch = Dma1Channels[call.input]
          /\ cselr[call.ch] = Dma1ChannelSelects[call.input]
          /\ \A c \in (1..7) \ {call.ch} : cselr[c] = entry.cselr[c]
          /\ BoundInputs(call.ch) = {call.input}
          /\ Len(trace) = 1
          /\ trace[1].reg = [name |-> "cselr", n |-> 0]
          /\ [entry EXCEPT !.cselr = cselr] = RegFile

\* channel_select(I2c3Rx) has returned with C3S = 0b011 after a
\* channel_select that had bound Spi1Tx to channel 3, with the other
\* channels bound by earlier calls.
C29_Witness ==
    /\ AtRet("channel_select")
    /\ call.input = "I2c3Rx"
    /\ prev.op = "channel_select"
    /\ prev.ch = 3
    /\ entry.cselr[3] = 1
    /\ cselr[3] = 3
    /\ cselr[2] = 2

\* A control register with the interrupt-enable bit of `kind` set.
WithEnableBit(r, kind) ==
    CASE kind = "TransferError"    -> [r EXCEPT !.teie = 1]
      [] kind = "HalfTransfer"     -> [r EXCEPT !.htie = 1]
      [] kind = "TransferComplete" -> [r EXCEPT !.tcie = 1]

\* C30: enable_interrupt(C, K) writes only the control register of C, and
\* every value it writes carries the fields the register had at entry, with
\* at most the interrupt-enable bit of K changed (to 1) and EN aside: the
\* other two interrupt-enable bits, PL, DIR, CIRC, PINC, MINC, PSIZE, MSIZE
\* and MEM2MEM stay as they were, and address, count, status, selection
\* registers and the registers of the other channels are as at entry.  At
\* the return the bit of K is 1 and EN is what the call read when it was
\* entered: the EN at entry, unless the hardware changed it meanwhile
\* (acknowledging an earlier clearing write, or on a transfer error).  A
\* channel read as disabled gets one write, with EN = 0.
C30_OnlyInterruptEnable ==
    InCall("enable_interrupt") =>
        LET ch  == call.ch
            old == ConfigFields(entry.ccr[ch])
            new == WithEnableBit(old, call.interrupt)
        IN  /\ cpar = entry.cpar /\ cmar = entry.cmar /\ cndtr = entry.cndtr
            /\ cselr = entry.cselr /\ muxcr = entry.muxcr
            /\ \A c \in Channels(family) \ {ch} :
                   ccr[c] = entry.ccr[c] /\ isr[c] = entry.isr[c]
            /\ \A i \in 1..Len(trace) :
                   trace[i].k = "write" =>
                       /\ IsCcrWrite(trace[i], ch)
                       /\ ConfigFields(trace[i].val) \in {old, new}
                       /\ (pc # "ei_rd" /\ ~originally_enabled) =>
                              trace[i].val.en = 0
            /\ ConfigFields(ccr[ch]) \in {old, new}
            /\ (pc = "ret") =>
                   /\ ConfigFields(ccr[ch]) = new
                   /\ (isr[ch].teif = entry.isr[ch].teif) =>
                          ccr[ch].en = (IF originally_enabled THEN 1 ELSE 0)
                   /\ (~entry.enClr[ch] /\ isr[ch].teif = entry.isr[ch].teif) =>
                          ccr[ch].en = entry.ccr[ch].en
                   /\ ~originally_enabled => Len(trace) = 1

\* enable_interrupt(C, TransferError) has returned on a channel that a
\* cfg_channel had configured and a stop had disabled: TEIE is set, TCIE and
\* the other fields are as they were, EN is still 0.
C30_Witness ==
    /\ AtRet("enable_interrupt")
    /\ call.interrupt = "TransferError"
    /\ prev.op = "stop"
    /\ prev.ch = call.ch
    /\ entry.ccr[call.ch].en = 0
    /\ entry.ccr[call.ch].tcie = 1
    /\ entry.ccr[call.ch].teie = 0
    /\ ccr[call.ch].teie = 1
    /\ ccr[call.ch].htie = 0
    /\ ccr[call.ch].en = 0

\* C31: stop(C) writes only the control register of C, and the value it
\* writes is the one the register held at entry with EN = 0: the other
\* control fields of C stay as they were.  The address and count registers,
\* the request-selection registers and the registers and flags of the other
\* channels are as at entry; the call writes nothing to the clear-flag
\* register, so no status flag of C that was set at entry is reset.
C31_StopOnlyEnableBit ==
    InCall("stop") =>
        LET ch == call.ch
        IN  /\ cpar = entry.cpar /\ cmar = entry.cmar /\ cndtr = entry.cndtr
            /\ cselr = entry.cselr /\ muxcr = entry.muxcr
            /\ \A c \in Channels(family) \ {ch} :
                   ccr[c] = entry.ccr[c] /\ isr[c] = entry.isr[c]
            /\ ConfigFields(ccr[ch]) = ConfigFields(entry.ccr[ch])
            /\ Len(Writes(trace)) <= 1
            /\ \A i \in 1..Len(trace) :
                   trace[i].k = "write" =>
                       /\ IsCcrWrite(trace[i], ch)
                       /\ trace[i].val = [entry.ccr[ch] EXCEPT !.en = 0]
            /\ isr[ch].teif >= entry.isr[ch].teif
            /\ isr[ch].htif >= entry.isr[ch].htif
            /\ isr[ch].tcif >= entry.isr[ch].tcif
            /\ (hwLeft = MaxHwEvents) => isr = entry.isr

\* stop(C) has returned on a channel that was armed with TCIE and other
\* fields set and whose half-transfer flag was raised: EN reads 0, the
\* fields and the flag are as they were.
C31_Witness ==
    /\ AtRet("stop")
    /\ entry.ccr[call.ch].en = 1
    /\ entry.ccr[call.ch].tcie = 1
    /\ entry.ccr[call.ch].minc = 1
    /\ entry.isr[call.ch].htif = 1
    /\ ccr[call.ch] = [entry.ccr[call.ch] EXCEPT !.en = 0]
    /\ isr[call.ch].htif = 1
    /\ Len(Writes(trace)) = 1

\* The registers of channel ch under the build's topology.
ChannelRegs(ch) ==
    {[name |-> IF BlockTopology(family) THEN BlockName(k) ELSE FlatName(k),
      n    |-> ch] : k \in RegKinds}

\* C32: every write of cfg_channel(C, ..) goes to the peripheral-address,
\* memory-address, count or control register of C.  While the call runs
\* and at its return the registers and flags of every other channel and the
\* request-selection registers (DMA_CSELR, DMAMUX_CxCR) are as at entry;
\* nothing is written to the clear-flag register and the status register
\* changes only by the hardware raising a flag of C: no flag set at entry
\* is reset, and without a hardware event the status register is as at
\* entry.
C32_CfgWritesOwnChannel ==
    InCall("cfg_channel") =>
        LET ch == call.ch
        IN  /\ \A c \in Channels(family) \ {ch} :
                   /\ cpar[c] = entry.cpar[c]
                   /\ cmar[c] = entry.cmar[c]
                   /\ cndtr[c] = entry.cndtr[c]
                   /\ ccr[c] = entry.ccr[c]
                   /\ isr[c] = entry.isr[c]
            /\ cselr = entry.cselr /\ muxcr = entry.muxcr
            /\ \A i \in 1..Len(trace) :
                   trace[i].k = "write" => trace[i].reg \in ChannelRegs(ch)
            /\ isr[ch].teif >= entry.isr[ch].teif
            /\ isr[ch].htif >= entry.isr[ch].htif
            /\ isr[ch].tcif >= entry.isr[ch].tcif
            /\ (hwLeft = MaxHwEvents) => isr = entry.isr

\* cfg_channel(C, ..) has returned on a channel other than the first, with
\* its address, count and control registers changed by the call and the
\* channel armed.
C32_Witness ==
    /\ AtRet("cfg_channel")
    /\ call.ch \notin {1, 8}
    /\ Len(Writes(trace)) >= 5
    /\ cpar[call.ch] # entry.cpar[call.ch]
    /\ cmar[call.ch] # entry.cmar[call.ch]
    /\ cndtr[call.ch] # entry.cndtr[call.ch]
    /\ ccr[call.ch] # entry.ccr[call.ch]
    /\ ccr[call.ch].en = 1

\* C33: throughout cfg_channel(C, ..) and at its return TEIE and HTIE of C
\* hold the values they had at entry, and every control-register write of
\* the call carries those values; when the call does not request circular
\* mode the same is true of MEM2MEM.
C33_KeepsUnnamedBits ==
    InCall("cfg_channel") =>
        LET ch   == call.ch
            old  == entry.ccr[ch]
            keeps(r) ==
                /\ r.teie = old.teie
                /\ r.htie = old.htie
                /\ ~CircularRequested => r.mem2mem = old.mem2mem
        IN  /\ keeps(ccr[ch])
            /\ \A i \in 1..Len(trace) :
                   IsCcrWrite(trace[i], ch) => keeps(trace[i].val)

\* A non-circular cfg_channel(C, ..) has returned right after
\* enable_interrupt(C, TransferError), on a channel with MEM2MEM set: the
\* channel is armed, TEIE and MEM2MEM are still 1.
C33_Witness ==
    /\ AtRet("cfg_channel")
    /\ ~CircularRequested
    /\ prev.op = "enable_interrupt"
    /\ prev.ch = call.ch
    /\ prev.te
    /\ entry.ccr[call.ch].teie = 1
    /\ entry.ccr[call.ch].mem2mem = 1
    /\ ccr[call.ch].teie = 1
    /\ ccr[call.ch].mem2mem = 1
    /\ ccr[call.ch].en = 1
    /\ Len(Writes(trace)) = 5

\* C34: the transfer-complete flag of a channel is reset by no step but the
\* write of clear_interrupt(C, TransferComplete).  A driver that finds TCIF
\* of its channel set keeps finding it set until its first call; a
\* cfg_channel(C, ..) entered with the flag set writes nothing to the
\* clear-flag register and has the flag set throughout; and when the
\* driver's first call is cfg_channel(C, ..) and its second
\* transfer_is_complete(C), that call returns true.
C34_RearmKeepsTcif ==
    /\ [](/\ (callsLeft = MaxCalls) => \A c \in scope : isr[c].tcif = 1
          /\ (InCall("cfg_channel") /\ entry.isr[call.ch].tcif = 1) =>
                 /\ isr[call.ch].tcif = 1
                 /\ \A i \in 1..Len(trace) :
                        trace[i].k = "write" => trace[i].reg.name # "ifcr"
          /\ (/\ AtRet("transfer_is_complete")
              /\ prev.op = "cfg_channel"
              /\ prev.ch = call.ch
              /\ callsLeft = MaxCalls - 2) => ret = TRUE)
    /\ [][\A c \in Channels(family) :
              (isr[c].tcif = 1 /\ isr'[c].tcif = 0) =>
                  /\ pc = "ci_wr"
                  /\ call.op = "clear_interrupt"
                  /\ call.ch = c
                  /\ call.interrupt = "TransferComplete"]_vars

\* transfer_is_complete(C) has returned true right after the cfg_channel
\* that re-armed the finished channel 8, and the hardware has raised no
\* flag and moved no element since the driver was entered.
C34_Witness ==
    /\ AtRet("transfer_is_complete")
    /\ call.ch = 8
    /\ prev.op = "cfg_channel"
    /\ prev.ch = call.ch
    /\ callsLeft = MaxCalls - 2
    /\ hwLeft = MaxHwEvents
    /\ ccr[call.ch].en = 1
    /\ isr[call.ch].htif = 0
    /\ ret = TRUE

\* The interrupt-enable bit of `kind` in a control register.
EnableBit(r, kind) ==
    CASE kind = "TransferError"    -> r.teie
      [] kind = "HalfTransfer"     -> r.htie
      [] kind = "TransferComplete" -> r.tcie

\* The register file rf with the interrupt-enable bit of `kind` of channel
\* ch set.
EiResult(rf, ch, kind) ==
    [rf EXCEPT !.ccr[ch] = WithEnableBit(@, kind)]

\* The register files that differ from rf at most in the interrupt-enable
\* bit of `kind` of channel ch, which is set in rf.
EiBefore(rf, ch, kind) ==
    {rf,
     [rf EXCEPT !.ccr[ch] =
         CASE kind = "TransferError"    -> [@ EXCEPT !.teie = 0]
           [] kind = "HalfTransfer"     -> [@ EXCEPT !.htie = 0]
           [] kind = "TransferComplete" -> [@ EXCEPT !.tcie = 0]]}

\* C35: with no status event during the call, enable_interrupt(C, K)
\* entered on a channel with no clearing of EN pending returns with the
\* register file of its entry in which the bit of K is set.  Called right
\* after an enable_interrupt on C: if the bit of K was set already (as
\* after enable_interrupt(C, K)) the register file at the return is the one
\* at entry, so twice is the same as once; and for every kind K1 whose bit
\* is set at entry (as after enable_interrupt(C, K1)) and every register
\* file x that K1 takes to the one at entry, the register file at the
\* return is what K1 makes of what K makes of x, so the two orders agree.
C35_IdempotentAnyOrder ==
    (AtRet("enable_interrupt") /\ isr = entry.isr) =>
        LET ch == call.ch
            k  == call.interrupt
            y  == [f \in DOMAIN RegFile |-> entry[f]]
        IN  /\ ~entry.enClr[ch] => RegFile = EiResult(y, ch, k)
            /\ (prev.op = "enable_interrupt" /\ prev.ch = ch) =>
                   /\ EnableBit(entry.ccr[ch], k) = 1 => RegFile = y
                   /\ \A k1 \in DmaInterrupts :
                          EnableBit(entry.ccr[ch], k1) = 1 =>
                              \A x \in EiBefore(y, ch, k1) :
                                  /\ EiResult(x, ch, k1) = y
                                  /\ RegFile =
                                        EiResult(EiResult(x, ch, k), ch, k1)

\* enable_interrupt(C, HalfTransfer) has returned right after
\* enable_interrupt(C, TransferError) on an armed channel: three writes,
\* both bits set, the channel enabled again.
C35_Witness ==
    /\ AtRet("enable_interrupt")
    /\ call.interrupt = "HalfTransfer"
    /\ prev.op = "enable_interrupt"
    /\ prev.ch = call.ch
    /\ prev.te
    /\ isr = entry.isr
    /\ originally_enabled
    /\ entry.ccr[call.ch].htie = 0
    /\ ccr[call.ch].teie = 1
    /\ ccr[call.ch].htie = 1
    /\ ccr[call.ch].en = 1
    /\ Len(Writes(trace)) = 3

\* The inputs with an arm in both tables, and the pair the tables give.
TableInputs == DOMAIN Dma1Channels \cap DOMAIN Dma1ChannelSelects
TablePair(i) == <<Dma1Channels[i], Dma1ChannelSelects[i]>>

\* C36: two different inputs with a table entry never have the same pair
\* (dma1_channel, dma1_channel_select), so the 17 entries give 17 pairs;
\* and when channel_select(I) has returned, the channel it chose and the
\* selector value it wrote are the pair of I and of no other input.
C36_TableUnambiguous ==
    /\ \A a, b \in TableInputs : TablePair(a) = TablePair(b) => a = b
    /\ Cardinality({TablePair(i) : i \in TableInputs}) = 17
    /\ AtRet("channel_select") =>
          /\ Len(trace) = 1
          /\ {i \in TableInputs :
                 TablePair(i) = <<call.ch, trace[1].val[call.ch]>>}
                = {call.input}

\* channel_select(Usart1Tx) has returned after channel_select(Spi2Rx): both
\* inputs are on channel 4, whose field went from 0b001 to 0b010.
C36_Witness ==
    /\ AtRet("channel_select")
    /\ call.input = "Usart1Tx"
    /\ call.ch = 4
    /\ prev.op = "channel_select"
    /\ prev.ch = 4
    /\ entry.cselr[4] = 1
    /\ trace[1].val[4] = 2
    /\ cselr[4] = 2

\* The peripherals the claim C37 lists.
DuplexPeriphs == {"I2C1", "I2C2", "SPI1", "SPI2", "USART1", "USART2", "USART3"}

\* Both lookups of peripheral p resolve to a channel.
BothChans(p) ==
    /\ PeriphInputs[p].read \in DOMAIN Dma1Channels
    /\ PeriphInputs[p].write \in DOMAIN Dma1Channels

\* C37: the peripherals whose read_chan and write_chan both return a channel
\* are I2C1, I2C2, SPI1, SPI2, USART1, USART2 and (l4) USART3, and for each
\* of them the two channels differ: whenever read_chan has returned, its
\* value is not the channel write_chan resolves to, and the other way round.
C37_ReadWriteChannelsDiffer ==
    /\ \A f \in {"f3", "l4"} :
           {p \in DmaPeriphs(f) : BothChans(p)} = DuplexPeriphs \cap DmaPeriphs(f)
    /\ \A p \in DuplexPeriphs :
           Dma1Channels[PeriphInputs[p].read] # Dma1Channels[PeriphInputs[p].write]
    /\ (AtRet("read_chan") /\ BothChans(peripheral)) =>
           /\ ret \in Channels(family)
           /\ ret # Dma1Channels[PeriphInputs[peripheral].write]
    /\ (AtRet("write_chan") /\ BothChans(peripheral)) =>
           /\ ret \in Channels(family)
           /\ ret # Dma1Channels[PeriphInputs[peripheral].read]

\* USART3::write_chan() has returned channel 2 right after
\* USART3::read_chan(), which returns channel 3.
C37_Witness ==
    /\ AtRet("write_chan")
    /\ peripheral = "USART3"
    /\ prev.op = "read_chan"
    /\ ret = 2
    /\ Dma1Channels[PeriphInputs[peripheral].read] = 3

\* The calls the claim C38 lists.
AbortingCall ==
    \/ /\ peripheral = "SPI3"
       /\ call.op \in {"read_chan", "write_chan", "read_sel", "write_sel"}
    \/ /\ peripheral \in {"ADC1", "ADC2"}
       /\ call.op \in {"write_chan", "write_sel"}

\* C38: read_chan, write_chan, read_sel and write_sel of SPI3, and
\* write_chan and write_sel of ADC1 and ADC2, never return: the call is at
\* its lookup, at its unimplemented!(), or has aborted; it has accessed no
\* register and the register file is as the call found it.
C38_LookupsAbort ==
    (pc # "idle" /\ AbortingCall) =>
        /\ pc \in {"chan_val", "cs_val", "unimpl", "panic"}
        /\ trace = << >>
        /\ RegFile = entry

\* SPI3::write_sel(dma) has aborted on an l4 build whose DMA_CSELR earlier
\* calls had programmed; the register holds what they left.
C38_Witness ==
    /\ pc = "panic"
    /\ peripheral = "SPI3"
    /\ call.op = "write_sel"
    /\ call.input = "Spi3Tx"
    /\ cselr = EarlierCselr
    /\ trace = << >>

====
